---- MODULE Spec2Model ----
(***************************************************************************)
(* A model of the HFTNN core (hftnn.ts, math.ts, util.ts): the forward and *)
(* inverse frame transforms, the temporal chunker and the temporal         *)
(* reconstructor.  Numbers are symbolic terms (tagged tuples), so that the *)
(* data flow of every sample is visible; array indices, lengths and bin    *)
(* indices are exact integers.                                             *)
(***************************************************************************)
EXTENDS Integers, Sequences, FiniteSets, TLC

VARIABLES
    properties,   \* the HFTNNProperties of the session
    op,           \* the public operation that was called ("none" before any call)
    args,         \* the arguments as the caller passed them
    signal,       \* the caller's signal array as the call left it
    ret,          \* the value the call returned (an empty array when it threw)
    thrown,       \* the message of the Error the call threw, or NoError
    fwd,          \* one record per hftnnForward invocation of the call, in order
    inv,          \* one record per hftnnInverse invocation of the call, in order
    hops,         \* forwardTemporal: one record per iteration of the chunk loop
    stitch,       \* inverseTemporal: the windowed frames and the overlap-add log
    js,           \* hftnn.js: the module's variables and the calls observed
    run,          \* the call in progress, loop iteration by loop iteration
    tick          \* flips at every step of the call in progress

vars == <<properties, op, args, signal, ret, thrown, fwd, inv, hops, stitch, js, run, tick>>

---------------------------------------------------------------------------
(* Bounds of the model *)

MaxSignalLen == 4
MaxOctaveRange == 2
MaxExtraBins == 1
MaxInterpolatedChunks == 2
MaxHftLen == 3
MaxFrames == 3

SampleRates == {8}
Fundamentals == {1, 3}
FrequenciesInOctave == {1, 2}
DftSizes == {2, 4}
Samples == {1, 2}

---------------------------------------------------------------------------
(* JavaScript numbers, as symbolic terms *)

Num(n) == <<"num", n>>
NaN == <<"NaN">>
Undefined == <<"undefined">>

\* An operand that makes a JavaScript arithmetic operation yield NaN.
IsMissing(v) == v = Undefined \/ v = NaN

\* a * b
Mul(a, b) == IF IsMissing(a) \/ IsMissing(b) THEN NaN ELSE <<"mul", a, b>>

\* a + b
Add(a, b) == IF IsMissing(a) \/ IsMissing(b) THEN NaN ELSE <<"add", a, b>>

\* Math.sin(Math.PI * i / N)
Sin(i, N) ==
    IF N = 0 THEN NaN
    ELSE IF i = 0 THEN Num(0)
    ELSE <<"sin", i, N>>

RECURSIVE Pow(_, _)
Pow(a, n) == IF n = 0 THEN 1 ELSE a * Pow(a, n - 1)

RECURSIVE BitAnd(_, _)
BitAnd(a, b) ==
    IF a = 0 \/ b = 0 THEN 0
    ELSE (a % 2) * (b % 2) + 2 * BitAnd(a \div 2, b \div 2)

---------------------------------------------------------------------------
(* JavaScript arrays: a length and the elements that are present.  An      *)
(* index that is not present is a hole and reads as undefined.  A write at *)
(* an index at or past the length grows the array; a write at a negative   *)
(* index sets a plain property and leaves the length alone.                *)

\* The function f with every value computed (TLC keeps [x \in S |-> e] as
\* an unevaluated expression otherwise).
Eager(f) == f @@ <<>>

NewArray(n) == [length |-> n, el |-> <<>>]

ArrayOf(seq) ==
    [length |-> Len(seq), el |-> Eager([k \in 0 .. Len(seq) - 1 |-> seq[k + 1]])]

Has(a, k) == k \in DOMAIN a.el

Get(a, k) == IF Has(a, k) THEN a.el[k] ELSE Undefined

Put(a, k, v) ==
    [length |-> IF k >= a.length THEN k + 1 ELSE a.length,
     el |-> (k :> v) @@ a.el]

Push(a, v) == Put(a, a.length, v)

\* a.length = n
SetLength(a, n) ==
    [length |-> n, el |-> Eager([x \in {k \in DOMAIN a.el : k < n} |-> a.el[x]])]

\* a.fill(v, start)
Fill(a, v, start) ==
    [length |-> a.length,
     el |-> Eager([x \in DOMAIN a.el \cup (start .. a.length - 1) |->
                     IF x >= start /\ x < a.length THEN v ELSE a.el[x]])]

Min(a, b) == IF a < b THEN a ELSE b

\* a.slice(from, to), for 0 <= from
Slice(a, from, to) ==
    LET lo == Min(from, a.length)
        hi == Min(to, a.length)
        n == IF hi > lo THEN hi - lo ELSE 0
    IN [length |-> n,
        el |-> Eager([x \in {k \in 0 .. n - 1 : Has(a, lo + k)} |-> a.el[lo + x]])]

\* [...a]
Spread(a) ==
    [length |-> a.length, el |-> Eager([x \in 0 .. a.length - 1 |-> Get(a, x)])]

---------------------------------------------------------------------------
(* math.ts *)

magnitudePhaseToComplex(magnitude, phase) ==
    IF IsMissing(magnitude) \/ IsMissing(phase) THEN <<NaN, NaN>>
    ELSE << <<"cos_times", phase, magnitude>>, <<"sin_times", phase, magnitude>> >>

\* isPowerOfTwo with the lower bound off by one: 1 passes.
isPowerOfTwoOrOne(v) == v > 0 /\ BitAnd(v, v - 1) = 0

isPowerOfTwo(v) == v > 1 /\ BitAnd(v, v - 1) = 0

lerp(v0, v1, t) ==
    IF IsMissing(v0) \/ IsMissing(v1) THEN NaN ELSE <<"lerp", v0, v1, t>>

fftBinToMagnitudePhase(re, im) ==
    IF IsMissing(re) \/ IsMissing(im)
    THEN [magnitude |-> NaN, phase |-> NaN]
    ELSE [magnitude |-> <<"hypot", re, im>>, phase |-> <<"atan2", im, re>>]

\* Math.round(v) of v = num * 2^(x / n) / den >= 0: the largest b with
\* b - 1/2 <= v, that is ((2b - 1) * den)^n <= (2 * num)^n * 2^x.
RECURSIVE RoundFrom(_, _, _, _, _)
RoundFrom(b, num, den, x, n) ==
    IF Pow((2 * (b + 1) - 1) * den, n) <= Pow(2 * num, n) * Pow(2, x)
    THEN RoundFrom(b + 1, num, den, x, n)
    ELSE b

\* freq is the frequency fundamental * 2^(x / intervalsInOctave) that
\* intervalToFreq returns.
freqToFftBin(freq, sampleRate, signalLength) ==
    RoundFrom(0, freq.fundamental * signalLength, sampleRate, freq.x, freq.intervalsInOctave)

CosineWindow(length) ==
    [multipliers |-> [length |-> length,
                      el |-> Eager([i \in 0 .. length - 1 |-> Sin(i, length - 1)])],
     length |-> length]

\* apply that runs over the whole signal, whatever the window's length.
applyWhole(window, sig) ==
    [length |-> sig.length,
     el |-> Eager([i \in DOMAIN sig.el \cup (0 .. sig.length - 1) |->
                     IF i >= 0 /\ i < sig.length
                     THEN Mul(Get(sig, i), Get(window.multipliers, i))
                     ELSE sig.el[i]])]

\* CosineWindow.apply: the signal array after the call.
apply(window, sig) ==
    [length |-> sig.length,
     el |-> Eager([i \in DOMAIN sig.el \cup (0 .. Min(sig.length, window.length) - 1) |->
                     IF i >= 0 /\ i < Min(sig.length, window.length)
                     THEN Mul(Get(sig, i), Get(window.multipliers, i))
                     ELSE sig.el[i]])]

createComplexArray(size) == Fill(NewArray(size * 2), Num(0), 0)

---------------------------------------------------------------------------
(* util.ts *)

\* step that keeps every second value (the real parts) when n = 1.
stepReal(array, n) ==
    [length |-> array.length \div (2 * n),
     el |-> Eager([j \in {k \in 0 .. array.length : k * 2 * n < array.length} |->
                     Get(array, j * 2 * n)])]

step(array, n) ==
    IF n = 1 THEN Spread(array)
    ELSE [length |-> array.length \div n,
          el |-> Eager([j \in {k \in 0 .. array.length : k * n < array.length} |->
                          Get(array, j * n)])]

---------------------------------------------------------------------------
(* The FFT kernel (fft.js), an external collaborator: its outputs are      *)
(* uninterpreted functions of the input it read.  A term names the kernel  *)
(* run it comes from by `call`, the ordinal of the frame transform within  *)
(* the public operation; the input of that run is kept in the record of    *)
(* that frame transform.                                                   *)

\* new FFT(size); f.realTransform(transform, signal): the transform array
\* afterwards.  The kernel reads signal[0 .. size - 1].
realTransform(call, size, out) ==
    [length |-> IF out.length > 2 * size THEN out.length ELSE 2 * size,
     el |-> Eager([k \in DOMAIN out.el \cup (0 .. 2 * size - 1) |->
                     IF k >= 0 /\ k < 2 * size THEN <<"fft", call, k>> ELSE out.el[k]])]

\* f.inverseTransform(inverse, bins): the inverse array afterwards.  The
\* kernel reads bins[0 .. 2 * size - 1]; even output indices hold real
\* parts, odd output indices imaginary parts.
inverseTransform(call, size, out) ==
    [length |-> IF out.length > 2 * size THEN out.length ELSE 2 * size,
     el |-> Eager([k \in DOMAIN out.el \cup (0 .. 2 * size - 1) |->
                     IF k >= 0 /\ k < 2 * size
                     THEN <<"ifft", call, IF k % 2 = 0 THEN "re" ELSE "im", k \div 2>>
                     ELSE out.el[k]])]

---------------------------------------------------------------------------
(* hftnn.ts *)

NoError == "none"
ErrNoSignal == "No signal has been specified."
ErrLength == "The given signals length must be a power of two and higher than 1."
ErrNoProperties == "No properties have been given."
ErrNoHftnn == "No HFTNN has been specified."
TypeError == "TypeError: Cannot read properties of undefined"

\* An argument of a call: given, or left undefined by the caller.
Given(v) == [given |-> TRUE, v |-> v]
NotGiven(v) == [given |-> FALSE, v |-> v]

intervalToFreq(x, fundamental, intervalsInOctave) ==
    [fundamental |-> fundamental, x |-> x, intervalsInOctave |-> intervalsInOctave]

\* computeBinIfNecessary without the cache test: converts on every use.
computeBinAlways(st, idx) ==
    [st EXCEPT
        !.bins = Put(@, idx, fftBinToMagnitudePhase(Get(st.transform, idx * 2),
                                                    Get(st.transform, idx * 2 + 1))),
        !.reads = @ \cup {idx * 2, idx * 2 + 1},
        !.computed = Append(@, idx)]

\* The state of the extraction loops of hftnnForward: the bins cache, the
\* result so far, the transform, the loop variables, and a log of what was
\* emitted and of the transform indices that were read.
computeBinIfNecessary(st, idx) ==
    IF ~Has(st.bins, idx)
    THEN [st EXCEPT
             !.bins = Put(@, idx, fftBinToMagnitudePhase(Get(st.transform, idx * 2),
                                                         Get(st.transform, idx * 2 + 1))),
             !.reads = @ \cup {idx * 2, idx * 2 + 1},
             !.computed = Append(@, idx)]
    ELSE st

\* pushZero that logs the out-of-range index and pushes nothing.
pushZeroSkipped(st, idx, kind) ==
    [st EXCEPT !.emitted = Append(@, [idx |-> idx, kind |-> kind, read |-> FALSE])]

\* hft.push([0, 0])
pushZero(st, idx, kind) ==
    [st EXCEPT !.hft = Push(@, <<Num(0), Num(0)>>),
               !.emitted = Append(@, [idx |-> idx, kind |-> kind, read |-> FALSE])]

\* let bin = bins[idx]; hft.push([bin.magnitude, bin.phase])
emitBin(st, idx, kind) ==
    [st EXCEPT !.hft = Push(@, <<st.bins.el[idx].magnitude, st.bins.el[idx].phase>>),
               !.emitted = Append(@, [idx |-> idx, kind |-> kind, read |-> TRUE])]

\* computeBinIfNecessary(idx); let bin = bins[idx]; hft.push(...)
pushBin(st, idx, kind) == emitBin(computeBinIfNecessary(st, idx), idx, kind)

\* for (extraBinIdx = -extraBins; extraBinIdx < 0; extraBinIdx++)
RECURSIVE lowNeighbours(_, _, _)
lowNeighbours(st, binIdx, extraBinIdx) ==
    IF ~(extraBinIdx < 0) THEN st
    ELSE lowNeighbours(IF binIdx + extraBinIdx < 0
                       THEN pushZero(st, binIdx + extraBinIdx, "low")
                       ELSE pushBin(st, binIdx + extraBinIdx, "low"),
                       binIdx, extraBinIdx + 1)

\* for (extraBinIdx = 1; extraBinIdx <= extraBins; extraBinIdx++)
RECURSIVE highNeighbours(_, _, _, _)
highNeighbours(st, binIdx, extraBinIdx, extraBins) ==
    IF ~(extraBinIdx <= extraBins) THEN st
    ELSE highNeighbours(IF binIdx + extraBinIdx >= st.bins.length
                        THEN pushZero(st, binIdx + extraBinIdx, "high")
                        ELSE pushBin(st, binIdx + extraBinIdx, "high"),
                        binIdx, extraBinIdx + 1, extraBins)

\* The low neighbours, the centre bin and the high neighbours of binIdx.
neighbourhood(st, binIdx, extraBins) ==
    highNeighbours(pushBin(lowNeighbours(st, binIdx, -extraBins), binIdx, "centre"),
                   binIdx, 1, extraBins)

\* The body of the inner loop for harmonic interval j.
interval(st, j, p, signalLength) ==
    neighbourhood(st,
                  freqToFftBin(intervalToFreq(j, p.fundamental, p.frequenciesInOctave),
                               p.sampleRate, signalLength),
                  p.extraBins)

\* for (oct = 1; oct <= octaveRange; oct++) for (i = 0; i < frequenciesInOctave; i++)
\* st holds the loop variables oct, i and j as well.
RECURSIVE octaves(_, _, _)
octaves(st, p, signalLength) ==
    IF ~(st.oct <= p.octaveRange) THEN st
    ELSE IF ~(st.i < p.frequenciesInOctave)
         THEN octaves([st EXCEPT !.oct = @ + 1, !.i = 0], p, signalLength)
    ELSE octaves([interval(st, st.j, p, signalLength) EXCEPT !.i = @ + 1, !.j = @ + 1],
                 p, signalLength)

\* What a forward call that threw leaves behind.
forwardThrew(sig, message) ==
    [thrown |-> message, frame |-> sig, signal |-> sig, windowLength |-> 0,
     windowBuilt |-> FALSE, fftSize |-> 0, transform |-> NewArray(0),
     binsLength |-> 0, bins |-> NewArray(0), hft |-> NewArray(0),
     emitted |-> <<>>, computed |-> <<>>, reads |-> {}]

\* return hft: the record of a forward call that returned.  frame is the
\* signal as it was handed in, signal the same array after the call
\* (windowing is done in place), st the final state of the loops.
forwardReturned(sig, windowed, w, p, st) ==
    [thrown |-> NoError, frame |-> sig, signal |-> windowed,
     windowLength |-> w.window.length, windowBuilt |-> w.built,
     fftSize |-> p.dftSize, transform |-> st.transform,
     binsLength |-> st.transform.length \div 2, bins |-> st.bins, hft |-> st.hft,
     emitted |-> st.emitted, computed |-> st.computed, reads |-> st.reads]

\* const bins = new Array(transform.length / 2); const hft = []; let j = 0
extractionStart(transform) ==
    [bins |-> NewArray(transform.length \div 2), hft |-> NewArray(0),
     transform |-> transform, oct |-> 1, i |-> 0, j |-> 0,
     emitted |-> <<>>, computed |-> <<>>, reads |-> {}]

\* f.realTransform(transform, signal) and the extraction loops
transformAndExtract(sig, windowed, w, p, call) ==
    forwardReturned(sig, windowed, w, p,
                    octaves(extractionStart(realTransform(call, p.dftSize,
                                                          createComplexArray(p.dftSize))),
                            p, sig.length))

\* The window hftnnForward applies: forwardWindow when it is given and has
\* the signal's length, a new CosineWindow(signal.length) otherwise.
windowFor(windowArg, length) ==
    IF windowArg.given /\ windowArg.v.length = length
    THEN [window |-> windowArg.v, built |-> FALSE]
    ELSE [window |-> CosineWindow(length), built |-> TRUE]

windowAndTransform(sig, w, p, call) ==
    transformAndExtract(sig, apply(w.window, sig), w, p, call)

\* hftnnForward(signal, properties, forwardWindow): the record of one call.
hftnnForward(sigArg, propArg, windowArg, call) ==
    IF ~sigArg.given THEN forwardThrew(sigArg.v, ErrNoSignal)
    ELSE IF ~isPowerOfTwo(sigArg.v.length) THEN forwardThrew(sigArg.v, ErrLength)
    ELSE IF ~propArg.given THEN forwardThrew(sigArg.v, ErrNoProperties)
    ELSE windowAndTransform(sigArg.v, windowFor(windowArg, sigArg.v.length), propArg.v, call)

\* padChunk without the fill: the added positions stay empty.
padChunkUnfilled(chunk, dftSize) == SetLength(chunk, dftSize)

\* const chunk = signal.slice(i, i + dftSize); chunk.length = dftSize;
\* chunk.fill(0, chunkLen)
padChunk(chunk, dftSize) == Fill(SetLength(chunk, dftSize), Num(0), chunk.length)

chunkAt(sig, i, dftSize) == padChunk(Slice(sig, i, i + dftSize), dftSize)

\* hftnns.push(hftnnForward(chunk, properties, forwardWindow))
pushForward(st, f) ==
    [st EXCEPT !.thrown = f.thrown,
               !.fwd = Append(@, f),
               !.hftnns = IF f.thrown = NoError THEN Push(@, f.hft) ELSE @]

\* chunkStep whose skip counter never leaves 0: every hop is processed.
chunkStepNoSkip(st, first, second, sig, p, forwardWindow) ==
    [(IF first \/ second
      THEN pushForward(st, hftnnForward(Given(chunkAt(sig, st.i, p.dftSize)), Given(p),
                                        Given(forwardWindow), Len(st.fwd) + 1))
      ELSE st)
     EXCEPT !.hops = Append(@, [i |-> st.i, j |-> st.j, first |-> first,
                                second |-> second, processed |-> first \/ second]),
            !.i = @ + (p.dftSize \div 2),
            !.j = 0]

\* chunkStep whose skip counter is reset one iteration early.
chunkStepEarlyReset(st, first, second, sig, p, forwardWindow) ==
    [(IF first \/ second
      THEN pushForward(st, hftnnForward(Given(chunkAt(sig, st.i, p.dftSize)), Given(p),
                                        Given(forwardWindow), Len(st.fwd) + 1))
      ELSE st)
     EXCEPT !.hops = Append(@, [i |-> st.i, j |-> st.j, first |-> first,
                                second |-> second, processed |-> first \/ second]),
            !.i = @ + (p.dftSize \div 2),
            !.j = IF @ + 1 >= p.interpolatedChunks THEN 0 ELSE @ + 1]

\* chunkStep that goes round again without moving on when the hop is not
\* processed: neither i nor the skip counter changes.
chunkStepStuck(st, first, second, sig, p, forwardWindow) ==
    IF first \/ second
    THEN [pushForward(st, hftnnForward(Given(chunkAt(sig, st.i, p.dftSize)), Given(p),
                                       Given(forwardWindow), Len(st.fwd) + 1))
          EXCEPT !.hops = Append(@, [i |-> st.i, j |-> st.j, first |-> first,
                                     second |-> second, processed |-> TRUE]),
                 !.i = @ + (p.dftSize \div 2),
                 !.j = IF @ + 1 > p.interpolatedChunks THEN 0 ELSE @ + 1]
    ELSE st

\* One iteration of the chunk loop: the two disjuncts of its condition, the
\* frame transform, and the skip counter.
chunkStep(st, first, second, sig, p, forwardWindow) ==
    [(IF first \/ second
      THEN pushForward(st, hftnnForward(Given(chunkAt(sig, st.i, p.dftSize)), Given(p),
                                        Given(forwardWindow), Len(st.fwd) + 1))
      ELSE st)
     EXCEPT !.hops = Append(@, [i |-> st.i, j |-> st.j, first |-> first,
                                second |-> second, processed |-> first \/ second]),
            !.i = @ + (p.dftSize \div 2),
            !.j = IF @ + 1 > p.interpolatedChunks THEN 0 ELSE @ + 1]

\* chunkLoop whose second disjunct holds for the hops that reach past the
\* end of the signal.
RECURSIVE chunkLoopPastEnd(_, _, _, _)
chunkLoopPastEnd(st, sig, p, forwardWindow) ==
    IF st.thrown # NoError \/ ~(st.i < sig.length) THEN st
    ELSE chunkLoopPastEnd(chunkStep(st, st.j = 0, st.i + (p.dftSize \div 2) >= sig.length,
                                    sig, p, forwardWindow),
                          sig, p, forwardWindow)

\* for (i = 0; i < signal.length; i += dftSize / 2); st holds the loop
\* variable i and the skip counter j.
RECURSIVE chunkLoop(_, _, _, _)
chunkLoop(st, sig, p, forwardWindow) ==
    IF st.thrown # NoError \/ ~(st.i < sig.length) THEN st
    ELSE chunkLoop(chunkStep(st, st.j = 0, st.i >= sig.length + (p.dftSize \div 2),
                             sig, p, forwardWindow),
                   sig, p, forwardWindow)

\* return [hftnnForward(signal, properties)]
shortReturned(f) ==
    [thrown |-> f.thrown, signal |-> f.signal,
     ret |-> IF f.thrown = NoError THEN ArrayOf(<<f.hft>>) ELSE NewArray(0),
     fwd |-> <<f>>, hops |-> <<>>]

\* return hftnns
chunkedReturned(st, sig) ==
    [thrown |-> st.thrown, signal |-> sig,
     ret |-> IF st.thrown = NoError THEN st.hftnns ELSE NewArray(0),
     fwd |-> st.fwd, hops |-> st.hops]

\* hftnnForwardTemporal whose short branch is taken below half a frame only.
hftnnForwardTemporalHalf(sig, p) ==
    IF sig.length < p.dftSize \div 2
    THEN shortReturned(hftnnForward(Given(SetLength(sig, p.dftSize)), Given(p),
                                    NotGiven(CosineWindow(0)), 1))
    ELSE chunkedReturned(chunkLoop([thrown |-> NoError, i |-> 0, j |-> 0, fwd |-> <<>>,
                                    hftnns |-> NewArray(0), hops |-> <<>>],
                                   sig, p, CosineWindow(p.dftSize)),
                         sig)

\* hftnnForwardTemporal(signal, properties): the record of one call; signal
\* is the caller's array after the call.
hftnnForwardTemporal(sig, p) ==
    IF sig.length < p.dftSize
    THEN shortReturned(hftnnForward(Given(SetLength(sig, p.dftSize)), Given(p),
                                    NotGiven(CosineWindow(0)), 1))
    ELSE chunkedReturned(chunkLoop([thrown |-> NoError, i |-> 0, j |-> 0, fwd |-> <<>>,
                                    hftnns |-> NewArray(0), hops |-> <<>>],
                                   sig, p, CosineWindow(p.dftSize)),
                         sig)

\* bins[at] = complex[0]; bins[at + 1] = complex[1]
scatterComplex(st, complex, at) ==
    [st EXCEPT !.bins = Put(Put(@, at, complex[1]), at + 1, complex[2]),
               !.writes = Append(@, [entry |-> st.i, at |-> at]),
               !.i = @ + 1]

\* The scatter of entry hft[i] at interleaved index `at`, and i++.  Reading
\* hft[i][0] of an entry that is not there throws.
scatter(st, hft, at) ==
    IF st.thrown # NoError THEN st
    ELSE IF ~Has(hft, st.i) THEN [st EXCEPT !.thrown = TypeError]
    ELSE scatterComplex(st, magnitudePhaseToComplex(hft.el[st.i][1], hft.el[st.i][2]), at)

\* for (j = extraBins; j > 0; j--)
RECURSIVE scatterLow(_, _, _, _)
scatterLow(st, hft, baseBin, j) ==
    IF ~(j > 0) THEN st
    ELSE scatterLow(scatter(st, hft, (baseBin - j) * 2), hft, baseBin, j - 1)

\* for (j = 1; j <= extraBins; j++)
RECURSIVE scatterHigh(_, _, _, _, _)
scatterHigh(st, hft, baseBin, j, extraBins) ==
    IF ~(j <= extraBins) THEN st
    ELSE scatterHigh(scatter(st, hft, (baseBin + j) * 2), hft, baseBin, j + 1, extraBins)

\* scatterInterval that scatters the centre entry first.
scatterIntervalCentreFirst(st, hft, baseBin, extraBins) ==
    scatterHigh(scatterLow(scatter(st, hft, baseBin * 2), hft, baseBin, extraBins),
                hft, baseBin, 1, extraBins)

\* The entries of one interval: low neighbours, centre, high neighbours.
scatterInterval(st, hft, baseBin, extraBins) ==
    scatterHigh(scatter(scatterLow(st, hft, baseBin, extraBins), hft, baseBin * 2),
                hft, baseBin, 1, extraBins)

\* One iteration of the while loop: the entries of interval st.interval,
\* and interval++.
scatterStep(st, hft, p) ==
    [scatterInterval(st, hft,
                     freqToFftBin(intervalToFreq(st.interval, p.fundamental,
                                                 p.frequenciesInOctave),
                                  p.sampleRate, p.dftSize),
                     p.extraBins)
     EXCEPT !.interval = @ + 1]

\* while (i < hft.length); st holds i and interval.
RECURSIVE scatterLoop(_, _, _)
scatterLoop(st, hft, p) ==
    IF st.thrown # NoError \/ ~(st.i < hft.length) THEN st
    ELSE scatterLoop(scatterStep(st, hft, p), hft, p)

\* The record of an inverse call: bins is the spectrum as the loop left
\* it, inverse the kernel's output, signal the returned array.
inverseReturned(st, hft, inverse) ==
    IF st.thrown # NoError
    THEN [thrown |-> st.thrown, hft |-> hft, bins |-> st.bins, writes |-> st.writes,
          inverse |-> NewArray(0), signal |-> NewArray(0)]
    ELSE [thrown |-> NoError, hft |-> hft, bins |-> st.bins, writes |-> st.writes,
          inverse |-> inverse, signal |-> step(inverse, 1)]

\* hftnnInverse with a check of the frame's length in front of the loop.
hftnnInverseChecked(hftArg, propArg, call) ==
    IF ~hftArg.given
    THEN inverseReturned([thrown |-> ErrNoHftnn, bins |-> NewArray(0), writes |-> <<>>],
                         hftArg.v, NewArray(0))
    ELSE IF ~propArg.given
    THEN inverseReturned([thrown |-> ErrNoProperties, bins |-> NewArray(0), writes |-> <<>>],
                         hftArg.v, NewArray(0))
    ELSE IF hftArg.v.length # propArg.v.octaveRange * propArg.v.frequenciesInOctave
                                  * (2 * propArg.v.extraBins + 1)
    THEN inverseReturned([thrown |-> ErrNoHftnn, bins |-> NewArray(0), writes |-> <<>>],
                         hftArg.v, NewArray(0))
    ELSE inverseReturned(
             scatterLoop([thrown |-> NoError, i |-> 0, interval |-> 0,
                          bins |-> createComplexArray(propArg.v.dftSize), writes |-> <<>>],
                         hftArg.v, propArg.v),
             hftArg.v,
             inverseTransform(call, propArg.v.dftSize, createComplexArray(propArg.v.dftSize)))

\* hftnnInverse(hft, properties): the record of one call.
hftnnInverse(hftArg, propArg, call) ==
    IF ~hftArg.given
    THEN inverseReturned([thrown |-> ErrNoHftnn, bins |-> NewArray(0), writes |-> <<>>],
                         hftArg.v, NewArray(0))
    ELSE IF ~propArg.given
    THEN inverseReturned([thrown |-> ErrNoProperties, bins |-> NewArray(0), writes |-> <<>>],
                         hftArg.v, NewArray(0))
    ELSE inverseReturned(
             scatterLoop([thrown |-> NoError, i |-> 0, interval |-> 0,
                          bins |-> createComplexArray(propArg.v.dftSize), writes |-> <<>>],
                         hftArg.v, propArg.v),
             hftArg.v,
             inverseTransform(call, propArg.v.dftSize, createComplexArray(propArg.v.dftSize)))

\* t = tNum / tDen
lerpEntry(a, b, t) == <<lerp(a[1], b[1], t), lerp(a[2], b[2], t)>>

\* The interpolated frame at t = tNum / tDen between hft and nextHft;
\* reading an entry that is not there throws.
interpolate(hft, nextHft, tNum, tDen) ==
    IF \E k \in 0 .. hft.length - 1 : ~Has(hft, k) \/ ~Has(nextHft, k)
    THEN NotGiven(NewArray(0))
    ELSE Given([length |-> hft.length,
                el |-> Eager([k \in 0 .. hft.length - 1 |->
                                 lerpEntry(hft.el[k], nextHft.el[k],
                                           [num |-> tNum, den |-> tDen])])])

\* if (windowFunc == undefined) windowFunc = new CosineWindow(signal.length);
\* windowFunc.apply(signal); signals.push(signal)
windowAndPush(st, r, w, kind, from) ==
    IF r.thrown # NoError
    THEN [st EXCEPT !.thrown = r.thrown, !.inv = Append(@, r)]
    ELSE [st EXCEPT !.inv = Append(@, r),
                    !.windowFunc = Given(w.window),
                    !.windowsBuilt = IF w.built THEN Append(@, w.window.length) ELSE @,
                    !.signals = Append(@, apply(w.window, r.signal)),
                    !.kinds = Append(@, [kind |-> kind, from |-> from])]

inverseThenWindow(st, r, kind, from) ==
    windowAndPush(st, r, windowFor(st.windowFunc, IF st.windowFunc.given
                                                  THEN st.windowFunc.v.length
                                                  ELSE r.signal.length),
                  kind, from)

\* signal = hftnnInverse(hft, properties), then window and push.
inverseAndWindow(st, hftArg, p, kind, from) ==
    IF st.thrown # NoError THEN st
    ELSE IF ~hftArg.given THEN [st EXCEPT !.thrown = TypeError]
    ELSE inverseThenWindow(st, hftnnInverse(hftArg, Given(p), Len(st.inv) + 1), kind, from)

\* interpolatedLoop that builds interpolatedChunks frames, not twice as many.
RECURSIVE interpolatedLoopHalf(_, _, _, _, _, _)
interpolatedLoopHalf(st, hft, nextHft, j, p, from) ==
    IF st.thrown # NoError \/ ~(j < p.interpolatedChunks) THEN st
    ELSE interpolatedLoopHalf(
             inverseAndWindow(st, interpolate(hft, nextHft, j + 1, p.interpolatedChunks * 2 + 1),
                              p, "interpolated", from),
             hft, nextHft, j + 1, p, from)

\* for (j = 0; j < interpolatedChunks * 2; j++)
RECURSIVE interpolatedLoop(_, _, _, _, _, _)
interpolatedLoop(st, hft, nextHft, j, p, from) ==
    IF st.thrown # NoError \/ ~(j < p.interpolatedChunks * 2) THEN st
    ELSE interpolatedLoop(
             inverseAndWindow(st, interpolate(hft, nextHft, j + 1, p.interpolatedChunks * 2 + 1),
                              p, "interpolated", from),
             hft, nextHft, j + 1, p, from)

\* withLookahead without the i++: the lookahead frame comes again as the
\* next current frame.
withLookaheadNotSkipped(current, i, hftt, p) ==
    inverseAndWindow(interpolatedLoop(current, Get(hftt, i), Get(hftt, i + 1), 0, p, i),
                     [given |-> Has(hftt, i + 1), v |-> Get(hftt, i + 1)],
                     p, "lookahead", i + 1)

\* The body of if (interpolatedChunks > 0 && (i + 1) < hftt.length): i++,
\* the interpolated chunks, the lookahead frame.
withLookahead(current, i, hftt, p) ==
    [inverseAndWindow(interpolatedLoop(current, Get(hftt, i), Get(hftt, i + 1), 0, p, i),
                      [given |-> Has(hftt, i + 1), v |-> Get(hftt, i + 1)],
                      p, "lookahead", i + 1)
     EXCEPT !.i = i + 1]

\* afterCurrent that asks for two frames after the current one.
afterCurrentLate(current, i, hftt, p) ==
    IF current.thrown = NoError /\ p.interpolatedChunks > 0 /\ i + 2 < hftt.length
    THEN withLookahead(current, i, hftt, p)
    ELSE current

\* One iteration of the frame loop after the current frame was pushed.
afterCurrent(current, i, hftt, p) ==
    IF current.thrown = NoError /\ p.interpolatedChunks > 0 /\ i + 1 < hftt.length
    THEN withLookahead(current, i, hftt, p)
    ELSE current

\* One iteration of the frame loop, and i++.
frameStep(st, hftt, p) ==
    [afterCurrent(inverseAndWindow(st, [given |-> Has(hftt, st.i), v |-> Get(hftt, st.i)],
                                   p, "current", st.i),
                  st.i, hftt, p)
     EXCEPT !.i = @ + 1]

\* for (i = 0; i < hftt.length; i++); st holds the loop variable i.
RECURSIVE frameLoop(_, _, _)
frameLoop(st, hftt, p) ==
    IF st.thrown # NoError \/ ~(st.i < hftt.length) THEN st
    ELSE frameLoop(frameStep(st, hftt, p), hftt, p)

\* overlapSample that adds the overlapping samples without doubling.
overlapSampleNoDouble(st, sample, signalIdx) ==
    IF st.signal.length <= signalIdx
    THEN [st EXCEPT !.signal = Push(@, sample),
                    !.appended = Append(@, signalIdx),
                    !.j = @ + 1]
    ELSE [st EXCEPT !.signal = Put(@, signalIdx, Add(Get(st.signal, signalIdx), sample)),
                    !.doubled = Append(@, signalIdx),
                    !.j = @ + 1]

\* The overlap-add of sample j of a frame at position signalIdx.
overlapSample(st, sample, signalIdx) ==
    IF st.signal.length <= signalIdx
    THEN [st EXCEPT !.signal = Push(@, sample),
                    !.appended = Append(@, signalIdx),
                    !.j = @ + 1]
    ELSE [st EXCEPT !.signal = Put(@, signalIdx,
                                   Mul(Add(Get(st.signal, signalIdx), sample), Num(2))),
                    !.doubled = Append(@, signalIdx),
                    !.j = @ + 1]

\* for (j = 0; j < dftSize * 2; j++) of the overlap-add of one frame; st
\* holds the accumulated signal and the loop variable j.
RECURSIVE overlapSamples(_, _, _, _)
overlapSamples(st, frame, relativeStart, p) ==
    IF ~(st.j < p.dftSize * 2) THEN st
    ELSE overlapSamples(overlapSample(st, Get(frame, st.j), relativeStart + st.j),
                        frame, relativeStart, p)

\* The accumulator after one frame was added, with the log of that frame.
overlapped(st, one, relativeStart) ==
    [signal |-> one.signal,
     i |-> st.i + 1,
     log |-> Append(st.log, [relativeStart |-> relativeStart,
                             before |-> st.signal.length,
                             after |-> one.signal.length,
                             appended |-> one.appended,
                             doubled |-> one.doubled])]

\* relativeStart = Math.floor((signal.length - dftSize * 2) + (dftSize * 2) * (1 / 2))
overlapFrame(st, frame, relativeStart, p) ==
    overlapped(st,
               overlapSamples([signal |-> st.signal, j |-> 0,
                               appended |-> <<>>, doubled |-> <<>>],
                              frame, relativeStart, p),
               relativeStart)

\* overlapAdd whose relativeStart lacks the half-frame offset: every frame
\* is laid over the whole of the one before.
RECURSIVE overlapAddNoHop(_, _, _)
overlapAddNoHop(st, signals, p) ==
    IF ~(st.i < Len(signals)) THEN st
    ELSE overlapAddNoHop(overlapFrame(st, signals[st.i + 1],
                                      st.signal.length - p.dftSize * 2, p),
                         signals, p)

\* for (i = 1; i < signals.length; i++); st holds the accumulated signal
\* and the loop variable i, signals is a sequence (signals[i] is its
\* element i + 1).
RECURSIVE overlapAdd(_, _, _)
overlapAdd(st, signals, p) ==
    IF ~(st.i < Len(signals)) THEN st
    ELSE overlapAdd(overlapFrame(st, signals[st.i + 1],
                                 (st.signal.length - p.dftSize * 2) + p.dftSize, p),
                    signals, p)

temporalReturned(st, sum) ==
    [thrown |-> st.thrown, ret |-> sum.signal, inv |-> st.inv, signals |-> st.signals,
     kinds |-> st.kinds, windowsBuilt |-> st.windowsBuilt, log |-> sum.log]

\* const signal = [...signals[0]] and the overlap-add, when no frame threw.
stitchFrames(st, p) ==
    temporalReturned(st,
                     IF st.thrown # NoError
                     THEN [signal |-> NewArray(0), log |-> <<>>]
                     ELSE overlapAdd([signal |-> Spread(st.signals[1]), i |-> 1,
                                      log |-> <<>>],
                                     st.signals, p))

\* hftnnInverseTemporal without the early return: [...signals[0]] of no
\* frames throws.
hftnnInverseTemporalUnguarded(hftt, p) ==
    IF hftt.length = 0
    THEN [thrown |-> TypeError, ret |-> NewArray(0), inv |-> <<>>, signals |-> <<>>,
          kinds |-> <<>>, windowsBuilt |-> <<>>, log |-> <<>>]
    ELSE stitchFrames(frameLoop([thrown |-> NoError, i |-> 0, inv |-> <<>>,
                                 signals |-> <<>>, kinds |-> <<>>,
                                 windowFunc |-> NotGiven(CosineWindow(0)),
                                 windowsBuilt |-> <<>>],
                                hftt, p),
                      p)

\* hftnnInverseTemporal(hftt, properties): the record of one call.
hftnnInverseTemporal(hftt, p) ==
    IF hftt.length = 0
    THEN [thrown |-> NoError, ret |-> NewArray(0), inv |-> <<>>, signals |-> <<>>,
          kinds |-> <<>>, windowsBuilt |-> <<>>, log |-> <<>>]
    ELSE stitchFrames(frameLoop([thrown |-> NoError, i |-> 0, inv |-> <<>>,
                                 signals |-> <<>>, kinds |-> <<>>,
                                 windowFunc |-> NotGiven(CosineWindow(0)),
                                 windowsBuilt |-> <<>>],
                                hftt, p),
                      p)

---------------------------------------------------------------------------
(* hftnn.js, the script build of the library: the same transforms, with    *)
(* the window of the temporal forward transform and the FFT wrapper kept   *)
(* in variables of the module.  m is the record of those variables:        *)
(* FFTJS (globalThis.FFTJS is defined), fftWrapper (a wrapper is set) and  *)
(* forwardWindow (null, or the window).                                    *)

ErrNoFftWrapper == "No FFT wrapper has been registered, and no compatible FFT library has been detected to create one automatically. Use HFTNN.bindFftLibrary to bind a FFT wrapper."

\* createAutoFftWrapper() returns a wrapper iff globalThis.FFTJS is defined.
createAutoFftWrapper(m) == m.FFTJS

\* ensureFftWrapperExists(): the module's variables afterwards; it throws
\* iff fftWrapper is still not set then.
ensureFftWrapperExists(m) == [m EXCEPT !.fftWrapper = @ \/ createAutoFftWrapper(m)]

\* HFTNN.bindFftLibrary(wrapper)
bindFftLibrary(m) == [m EXCEPT !.fftWrapper = TRUE]

\* if (forwardWindow != null) forwardWindow.apply(signal)
\* else new CosineWindow(signal.length).apply(signal)
moduleWindowFor(forwardWindow, length) ==
    IF forwardWindow.given
    THEN [window |-> forwardWindow.v, built |-> FALSE]
    ELSE [window |-> CosineWindow(length), built |-> TRUE]

\* HFTNN.forward after ensureFftWrapperExists() has run.
forwardEnsured(m, sigArg, propArg, call) ==
    IF ~m.fftWrapper THEN forwardThrew(sigArg.v, ErrNoFftWrapper)
    ELSE IF ~sigArg.given THEN forwardThrew(sigArg.v, ErrNoSignal)
    ELSE IF ~isPowerOfTwo(sigArg.v.length) THEN forwardThrew(sigArg.v, ErrLength)
    ELSE IF ~propArg.given THEN forwardThrew(sigArg.v, ErrNoProperties)
    ELSE windowAndTransform(sigArg.v, moduleWindowFor(m.forwardWindow, sigArg.v.length),
                            propArg.v, call)

\* HFTNN.forward(signal, properties): the record of one call.
forward(m, sigArg, propArg, call) ==
    forwardEnsured(ensureFftWrapperExists(m), sigArg, propArg, call)

\* One iteration of the chunk loop of HFTNN.forwardTemporal.
forwardTemporalStep(st, first, second, sig, p, m) ==
    [(IF first \/ second
      THEN pushForward(st, forward(m, Given(chunkAt(sig, st.i, p.dftSize)), Given(p),
                                   Len(st.fwd) + 1))
      ELSE st)
     EXCEPT !.hops = Append(@, [i |-> st.i, j |-> st.j, first |-> first,
                                second |-> second, processed |-> first \/ second]),
            !.i = @ + (p.dftSize \div 2),
            !.j = IF @ + 1 > p.interpolatedChunks THEN 0 ELSE @ + 1]

\* The chunk loop of HFTNN.forwardTemporal; a throw of HFTNN.forward ends it.
RECURSIVE forwardTemporalLoop(_, _, _, _)
forwardTemporalLoop(st, sig, p, m) ==
    IF st.thrown # NoError \/ ~(st.i < sig.length) THEN st
    ELSE forwardTemporalLoop(forwardTemporalStep(st, st.j = 0,
                                                 st.i >= sig.length + (p.dftSize \div 2),
                                                 sig, p, m),
                             sig, p, m)

\* return [HFTNN.forward(signal, properties)]: forwardWindow is not touched.
forwardTemporalShort(f, m) ==
    [thrown |-> f.thrown,
     ret |-> IF f.thrown = NoError THEN ArrayOf(<<f.hft>>) ELSE NewArray(0),
     fwd |-> <<f>>,
     m |-> ensureFftWrapperExists(m)]

\* forwardWindow = null; return hftnns -- reached only when no call threw.
forwardTemporalChunked(st, m) ==
    [thrown |-> st.thrown,
     ret |-> IF st.thrown = NoError THEN st.hftnns ELSE NewArray(0),
     fwd |-> st.fwd,
     m |-> IF st.thrown = NoError
           THEN [ensureFftWrapperExists(m) EXCEPT !.forwardWindow = NotGiven(CosineWindow(0))]
           ELSE ensureFftWrapperExists(m)]

\* forwardWindow = new CosineWindow(properties.dftSize), then the loop.
forwardTemporalWith(m, sig, p) ==
    forwardTemporalChunked(forwardTemporalLoop([thrown |-> NoError, i |-> 0, j |-> 0,
                                                fwd |-> <<>>, hftnns |-> NewArray(0),
                                                hops |-> <<>>],
                                               sig, p, m),
                           m)

\* HFTNN.forwardTemporal(signal, properties): the record of one call and
\* the module's variables after it.
forwardTemporal(m, sig, p) ==
    IF sig.length < p.dftSize
    THEN forwardTemporalShort(forward(m, Given(SetLength(sig, p.dftSize)), Given(p), 1), m)
    ELSE forwardTemporalWith([m EXCEPT !.forwardWindow = Given(CosineWindow(p.dftSize))],
                             sig, p)

---------------------------------------------------------------------------
(* The inputs of the model *)

PropertiesSet ==
    [sampleRate : SampleRates,
     fundamental : Fundamentals,
     frequenciesInOctave : FrequenciesInOctave,
     octaveRange : 1 .. MaxOctaveRange,
     extraBins : 0 .. MaxExtraBins,
     interpolatedChunks : 0 .. MaxInterpolatedChunks,
     dftSize : DftSizes]

\* The arrays of samples of every length up to MaxSignalLen.
Signals ==
    {ArrayOf(q) : q \in UNION {[1 .. n -> {Num(v) : v \in Samples}] : n \in 0 .. MaxSignalLen}}

\* The length every HarmonicFrame of the given properties has.
HftLength(p) == p.octaveRange * p.frequenciesInOctave * (2 * p.extraBins + 1)

\* A frame of n entries; entry k is (magnitude base + k, phase k).
MakeFrame(n, base) ==
    [length |-> n, el |-> Eager([k \in 0 .. n - 1 |-> <<Num(base + k), Num(k)>>])]

\* Frames of the right length and of every length up to MaxHftLen.
HftInputs(p) == {MakeFrame(n, 1) : n \in (0 .. MaxHftLen) \cup {HftLength(p)}}

\* Temporal HFTs of up to MaxFrames frames of the right length.
TemporalInputs(p) ==
    {[length |-> n, el |-> Eager([f \in 0 .. n - 1 |-> MakeFrame(HftLength(p), 10 * f)])] :
        n \in 0 .. MaxFrames}

NoWindow == NotGiven(CosineWindow(0))
NoArgs ==
    [signal |-> NotGiven(NewArray(0)), properties |-> FALSE, forwardWindow |-> NoWindow,
     hft |-> NotGiven(NewArray(0)), hftt |-> NotGiven(NewArray(0))]
NoStitch == [signals |-> <<>>, kinds |-> <<>>, windowsBuilt |-> <<>>, log |-> <<>>]

\* hftnn.js: a call as its caller observes it.  inputs are the windowed
\* frames handed to the FFT, windows the lengths of the windows applied to
\* them, frames the lengths of the frames.
observed(opName, sig, r) ==
    [op |-> opName, signal |-> sig, thrown |-> r.thrown, ret |-> r.ret,
     inputs |-> [k \in 1 .. Len(r.fwd) |-> r.fwd[k].signal],
     windows |-> [k \in 1 .. Len(r.fwd) |-> r.fwd[k].windowLength],
     frames |-> [k \in 1 .. Len(r.fwd) |-> r.fwd[k].frame.length]]

NoCall ==
    [op |-> "none", signal |-> NewArray(0), thrown |-> NoError, ret |-> NewArray(0),
     inputs |-> <<>>, windows |-> <<>>, frames |-> <<>>]

\* hftnn.js as loaded: no wrapper bound, no window.
ModuleLoaded(FFTJS) ==
    [FFTJS |-> FFTJS, fftWrapper |-> FALSE, forwardWindow |-> NoWindow]

\* No call is in progress.
NoRun == [pc |-> "idle"]

NoJs == [m |-> ModuleLoaded(FALSE), kept |-> NoCall, last |-> NoCall]

\* The properties and signals of the sessions of hftnn.js: one harmonic
\* interval, signals of ones.
JsPropertiesSet ==
    {p \in PropertiesSet : /\ p.fundamental = 1
                           /\ p.frequenciesInOctave = 1
                           /\ p.octaveRange = 1
                           /\ p.extraBins = 0}

JsSignals == {ArrayOf([k \in 1 .. n |-> Num(1)]) : n \in 0 .. MaxSignalLen}

---------------------------------------------------------------------------
(* The state machine: a session fixes the properties and calls one public  *)
(* operation; the result of a forward call may then be fed to the matching *)
(* inverse operation.                                                      *)

Init ==
    /\ properties \in PropertiesSet
    /\ op = "none"
    /\ args = NoArgs
    /\ signal = NewArray(0)
    /\ ret = NewArray(0)
    /\ thrown = NoError
    /\ fwd = <<>>
    /\ inv = <<>>
    /\ hops = <<>>
    /\ stitch = NoStitch
    /\ js = NoJs
    /\ run = NoRun
    /\ tick = FALSE

ForwardDone(r, sigArg, propGiven, windowArg) ==
    /\ op' = "forward"
    /\ args' = [NoArgs EXCEPT !.signal = sigArg, !.properties = propGiven,
                              !.forwardWindow = windowArg]
    /\ signal' = r.signal
    /\ ret' = r.hft
    /\ thrown' = r.thrown
    /\ fwd' = <<r>>
    /\ UNCHANGED <<properties, inv, hops, stitch, js>>

Forward ==
    /\ op = "none"
    /\ UNCHANGED <<run, tick>>
    /\ \E sigArg \in {Given(x) : x \in Signals} \cup {NotGiven(NewArray(0))},
          propGiven \in BOOLEAN,
          windowArg \in {NoWindow, Given(CosineWindow(properties.dftSize))} :
          ForwardDone(hftnnForward(sigArg, [given |-> propGiven, v |-> properties],
                                   windowArg, 1),
                      sigArg, propGiven, windowArg)

ForwardTemporalDone(r, sig) ==
    /\ op' = "forwardTemporal"
    /\ args' = [NoArgs EXCEPT !.signal = Given(sig), !.properties = TRUE]
    /\ signal' = r.signal
    /\ ret' = r.ret
    /\ thrown' = r.thrown
    /\ fwd' = r.fwd
    /\ hops' = r.hops
    /\ UNCHANGED <<properties, inv, stitch, js>>

ForwardTemporal ==
    /\ op = "none"
    /\ UNCHANGED <<run, tick>>
    /\ \E sig \in Signals : ForwardTemporalDone(hftnnForwardTemporal(sig, properties), sig)

InverseDone(r, hftArg, propGiven) ==
    /\ op' = "inverse"
    /\ args' = [NoArgs EXCEPT !.hft = hftArg, !.properties = propGiven]
    /\ signal' = NewArray(0)
    /\ ret' = r.signal
    /\ thrown' = r.thrown
    /\ inv' = <<r>>
    /\ UNCHANGED <<properties, fwd, hops, stitch, js>>

InverseCall(hftArg, propGiven) ==
    InverseDone(hftnnInverse(hftArg, [given |-> propGiven, v |-> properties], 1),
                hftArg, propGiven)

Inverse ==
    /\ op = "none"
    /\ UNCHANGED <<run, tick>>
    /\ \E hftArg \in {Given(x) : x \in HftInputs(properties)} \cup {NotGiven(NewArray(0))},
          propGiven \in BOOLEAN :
          InverseCall(hftArg, propGiven)

\* The frame a forward call returned, handed to the inverse transform.
InverseOfForward ==
    /\ op = "forward"
    /\ thrown = NoError
    /\ InverseCall(Given(ret), TRUE)
    /\ UNCHANGED <<run, tick>>

InverseTemporalDone(r, hftt) ==
    /\ op' = "inverseTemporal"
    /\ args' = [NoArgs EXCEPT !.hftt = Given(hftt), !.properties = TRUE]
    /\ signal' = NewArray(0)
    /\ ret' = r.ret
    /\ thrown' = r.thrown
    /\ inv' = r.inv
    /\ stitch' = [signals |-> r.signals, kinds |-> r.kinds,
                  windowsBuilt |-> r.windowsBuilt, log |-> r.log]
    /\ UNCHANGED <<properties, fwd, hops, js>>

InverseTemporalCall(hftt) ==
    InverseTemporalDone(hftnnInverseTemporal(hftt, properties), hftt)

InverseTemporal ==
    /\ op = "none"
    /\ UNCHANGED <<run, tick>>
    /\ \E hftt \in TemporalInputs(properties) : InverseTemporalCall(hftt)

\* The temporal HFT a forwardTemporal call returned, handed to the
\* temporal reconstructor.
InverseTemporalOfForwardTemporal ==
    /\ op = "forwardTemporal"
    /\ thrown = NoError
    /\ InverseTemporalCall(ret)
    /\ UNCHANGED <<run, tick>>

Next ==
    \/ Forward
    \/ ForwardTemporal
    \/ Inverse
    \/ InverseOfForward
    \/ InverseTemporal
    \/ InverseTemporalOfForwardTemporal

Spec == Init /\ [][Next]_vars

---------------------------------------------------------------------------
(* The sessions of hftnn.js: the script is loaded, with or without a       *)
(* global FFTJS, and the page calls HFTNN.forward, HFTNN.forwardTemporal   *)
(* and HFTNN.bindFftLibrary in any order.  The last call is observed, and  *)
(* one earlier call may be kept to compare it with.                        *)

InitJs ==
    /\ properties \in JsPropertiesSet
    /\ op = "none"
    /\ args = NoArgs
    /\ signal = NewArray(0)
    /\ ret = NewArray(0)
    /\ thrown = NoError
    /\ fwd = <<>>
    /\ inv = <<>>
    /\ hops = <<>>
    /\ stitch = NoStitch
    /\ \E FFTJS \in BOOLEAN : js = [NoJs EXCEPT !.m = ModuleLoaded(FFTJS)]
    /\ run = NoRun
    /\ tick = FALSE

JsCalled(m, call, keep) ==
    /\ js' = [m |-> m, kept |-> IF keep THEN js.last ELSE js.kept, last |-> call]
    /\ UNCHANGED <<properties, op, args, signal, ret, thrown, fwd, inv, hops, stitch, run, tick>>

\* The record of HFTNN.forward in the shape of a temporal call's.
forwardCalled(f) == [thrown |-> f.thrown, ret |-> f.hft, fwd |-> <<f>>]

JsForward ==
    \E sig \in JsSignals, keep \in BOOLEAN :
        JsCalled(ensureFftWrapperExists(js.m),
                 observed("forward", sig,
                          forwardCalled(forward(js.m, Given(sig), Given(properties), 1))),
                 keep)

JsForwardTemporalDone(r, sig, keep) ==
    JsCalled(r.m, observed("forwardTemporal", sig, r), keep)

JsForwardTemporal ==
    \E sig \in JsSignals, keep \in BOOLEAN :
        JsForwardTemporalDone(forwardTemporal(js.m, sig, properties), sig, keep)

JsBindFftLibrary ==
    /\ ~js.m.fftWrapper
    /\ js' = [js EXCEPT !.m = bindFftLibrary(js.m)]
    /\ UNCHANGED <<properties, op, args, signal, ret, thrown, fwd, inv, hops, stitch, run, tick>>

NextJs ==
    \/ JsForward
    \/ JsForwardTemporal
    \/ JsBindFftLibrary

SpecJs == InitJs /\ [][NextJs]_vars

---------------------------------------------------------------------------
(* Properties of the forward frame transform *)

InvalidInput == {ErrNoSignal, ErrLength, ErrNoProperties, ErrNoHftnn}

\* v is a power of two greater than 1 (stated without the bit trick).
IsPow2Above1(v) == \E e \in 1 .. v : v = Pow(2, e)

\* The arguments of a forward call pass the three checks.
ForwardArgsValid ==
    /\ args.signal.given
    /\ args.properties
    /\ IsPow2Above1(args.signal.v.length)

\* The entries of the frame transforms the call made: <<k, e>> is entry e
\* (from 1) of the frame transform fwd[k].
Emissions == UNION {{<<k, e>> : e \in 1 .. Len(fwd[k].emitted)} : k \in 1 .. Len(fwd)}

Zero == <<Num(0), Num(0)>>

\* C1: for valid Properties and a signal of power-of-two length > 1,
\* hftnnForward returns a frame of exactly
\* octaveRange * frequenciesInOctave * (2 * extraBins + 1) entries, whatever
\* the samples are and however many bin indices fall out of range.
C1_FrameLength ==
    (op = "forward" /\ ForwardArgsValid) =>
        /\ thrown = NoError
        /\ ret.length = properties.octaveRange * properties.frequenciesInOctave
                            * (2 * properties.extraBins + 1)
        /\ DOMAIN ret.el = 0 .. ret.length - 1

\* A forward call with neighbours, one entry of which was out of range and
\* emitted as [0, 0], and one entry of which was read past the spectrum.
C1_Witness ==
    /\ op = "forward"
    /\ ForwardArgsValid
    /\ properties.extraBins = 1
    /\ properties.octaveRange = 2
    /\ ret.length = 2 * properties.frequenciesInOctave * 3
    /\ \E m \in Emissions : ~fwd[m[1]].emitted[m[2]].read
    /\ \E m \in Emissions : /\ fwd[m[1]].emitted[m[2]].read
                            /\ fwd[m[1]].emitted[m[2]].idx >= fwd[m[1]].binsLength

\* C2 (as stated): every emitted entry whose bin index is outside
\* [0, dftSize / 2) is (0, 0), was emitted without reading the spectrum,
\* and no exception is raised.
C2_OutsideHalfSpectrumIsZero ==
    \A m \in Emissions :
        (op = "forward" /\ ForwardArgsValid /\ args.signal.v.length = properties.dftSize
         /\ (fwd[m[1]].emitted[m[2]].idx < 0
             \/ fwd[m[1]].emitted[m[2]].idx >= properties.dftSize \div 2)) =>
            /\ thrown = NoError
            /\ ~fwd[m[1]].emitted[m[2]].read
            /\ Get(ret, m[2] - 1) = Zero

\* C3 (as stated): an entry is [0, 0] if idx < 0 or idx >= bins.length and
\* the [magnitude, phase] of spectrum bin idx otherwise; the transform
\* array is never read outside its bounds and bins.length does not change.
C3_BinsLengthRule ==
    (op = "forward" /\ ForwardArgsValid) =>
        /\ \A m \in Emissions :
              IF fwd[m[1]].emitted[m[2]].idx < 0
                 \/ fwd[m[1]].emitted[m[2]].idx >= fwd[m[1]].binsLength
              THEN ~fwd[m[1]].emitted[m[2]].read /\ Get(ret, m[2] - 1) = Zero
              ELSE Get(ret, m[2] - 1)
                       = << <<"hypot", <<"fft", 1, 2 * fwd[m[1]].emitted[m[2]].idx>>,
                                       <<"fft", 1, 2 * fwd[m[1]].emitted[m[2]].idx + 1>> >>,
                            <<"atan2", <<"fft", 1, 2 * fwd[m[1]].emitted[m[2]].idx + 1>>,
                                       <<"fft", 1, 2 * fwd[m[1]].emitted[m[2]].idx>> >> >>
        /\ fwd[1].reads \subseteq 0 .. fwd[1].transform.length - 1
        /\ fwd[1].bins.length = fwd[1].binsLength

\* C4: hftnnForward throws one of its three errors, before it windows or
\* transforms anything, exactly when the signal is absent, its length is
\* not a power of two greater than 1, or the properties are absent.
C4_InvalidInput ==
    op = "forward" =>
        /\ thrown \in InvalidInput <=> ~ForwardArgsValid
        /\ ForwardArgsValid => thrown = NoError
        /\ ~ForwardArgsValid =>
              /\ signal = args.signal.v
              /\ ret.length = 0
              /\ ~fwd[1].windowBuilt
              /\ fwd[1].windowLength = 0
              /\ fwd[1].fftSize = 0
              /\ fwd[1].transform.length = 0
              /\ fwd[1].reads = {}

\* A signal of three samples, with properties and a window given, is
\* rejected for its length and left as it was.
C4_Witness ==
    /\ op = "forward"
    /\ args.signal.given
    /\ args.properties
    /\ args.forwardWindow.given
    /\ args.signal.v.length = 3
    /\ thrown = ErrLength
    /\ signal = args.signal.v

---------------------------------------------------------------------------
(* Properties of the inverse frame transform *)

\* The arguments of an inverse call are both there.
InverseArgsGiven == args.hft.given /\ args.properties

\* The frame handed to the inverse call has another length than the
\* properties give a HarmonicFrame.
LengthMismatch == args.hft.v.length # HftLength(properties)

\* C5 (as stated): hftnnInverse throws an InvalidInput error, before any
\* spectrum bin is written, when the frame's length differs from
\* octaveRange * frequenciesInOctave * (2 * extraBins + 1).
C5_MismatchRaisesInvalidInput ==
    (op = "inverse" /\ InverseArgsGiven /\ LengthMismatch) =>
        /\ thrown \in InvalidInput
        /\ inv[1].writes = <<>>

\* C5 (amended): hftnnInverse does not check the frame's length.  A frame
\* of another length raises no InvalidInput error: every entry it has is
\* scattered into the spectrum, and the call returns, or, when the length
\* is not a multiple of 2 * extraBins + 1, ends in a TypeError on the first
\* entry that is not there.
C5_NoLengthCheck ==
    (op = "inverse" /\ InverseArgsGiven /\ LengthMismatch) =>
        /\ thrown \notin InvalidInput
        /\ thrown \in {NoError, TypeError}
        /\ thrown = NoError <=> args.hft.v.length % (2 * properties.extraBins + 1) = 0
        /\ Len(inv[1].writes) = args.hft.v.length
        /\ \A w \in 1 .. Len(inv[1].writes) : inv[1].writes[w].entry = w - 1

\* A frame one entry longer than the properties give is scattered and
\* transformed without an error.
C5_Witness ==
    /\ op = "inverse"
    /\ InverseArgsGiven
    /\ args.hft.v.length = HftLength(properties) + 1
    /\ thrown = NoError
    /\ Len(inv[1].writes) = args.hft.v.length
    /\ ret.length > 0

\* C6 (as stated): hftnnInverse returns exactly dftSize samples, the real
\* components of the inverse FFT output only.
C6_ReturnsRealPartOnly ==
    (op = "inverse" /\ thrown = NoError) =>
        /\ ret.length = properties.dftSize
        /\ \A k \in 0 .. properties.dftSize - 1 : Get(ret, k) = <<"ifft", 1, "re", k>>

\* C6 (amended): hftnnInverse returns a copy of the whole interleaved
\* output of the inverse FFT: 2 * dftSize values, the real component of
\* sample k at position 2k and its imaginary component at position 2k + 1.
C6_ReturnsInterleaved ==
    (op = "inverse" /\ thrown = NoError) =>
        /\ ret.length = 2 * properties.dftSize
        /\ ret = inv[1].inverse
        /\ \A k \in 0 .. properties.dftSize - 1 :
              /\ Get(ret, 2 * k) = <<"ifft", 1, "re", k>>
              /\ Get(ret, 2 * k + 1) = <<"ifft", 1, "im", k>>

\* A frame of the right length, with dftSize = 4: eight values come back.
C6_Witness ==
    /\ op = "inverse"
    /\ thrown = NoError
    /\ InverseArgsGiven
    /\ ~LengthMismatch
    /\ properties.dftSize = 4
    /\ ret.length = 8
    /\ Get(ret, 7) = <<"ifft", 1, "im", 3>>

---------------------------------------------------------------------------
(* Properties of the temporal transforms *)

\* C7: hftnnInverseTemporal of an empty temporal HFT returns an empty
\* signal at once, for any properties: no hftnnInverse call, no window.
C7_EmptyTemporal ==
    (op = "inverseTemporal" /\ args.hftt.v.length = 0) =>
        /\ thrown = NoError
        /\ ret = NewArray(0)
        /\ inv = <<>>
        /\ stitch.windowsBuilt = <<>>
        /\ stitch.signals = <<>>
        /\ stitch.log = <<>>

\* The empty temporal HFT under properties that ask for interpolation.
C7_Witness ==
    /\ op = "inverseTemporal"
    /\ args.hftt.given
    /\ args.hftt.v.length = 0
    /\ properties.interpolatedChunks = MaxInterpolatedChunks
    /\ ret.length = 0
    /\ thrown = NoError

\* The call is a forwardTemporal call of a signal shorter than dftSize.
ShortSignal == op = "forwardTemporal" /\ args.signal.v.length < properties.dftSize

\* C8: for a signal shorter than dftSize, hftnnForwardTemporal calls
\* hftnnForward exactly once and returns exactly one frame.
C8_ShortSignalOneFrame ==
    ShortSignal =>
        /\ Len(fwd) = 1
        /\ thrown = NoError
        /\ ret.length = 1
        /\ Get(ret, 0) = fwd[1].hft
        /\ hops = <<>>

\* Three samples with dftSize = 4 (more than half a frame): one frame.
C8_Witness ==
    /\ ShortSignal
    /\ args.signal.v.length = 3
    /\ properties.dftSize = 4
    /\ Len(fwd) = 1
    /\ ret.length = 1

\* C9 (as stated): the frame handed to hftnnForward for a signal shorter
\* than dftSize has length dftSize, keeps the samples at [0, length) and
\* holds the number 0 at every position of [length, dftSize).
C9_ShortSignalZeroPadded ==
    ShortSignal =>
        /\ fwd[1].frame.length = properties.dftSize
        /\ \A k \in 0 .. args.signal.v.length - 1 :
              Get(fwd[1].frame, k) = Get(args.signal.v, k)
        /\ \A k \in args.signal.v.length .. properties.dftSize - 1 :
              Get(fwd[1].frame, k) = Num(0)

Ceil(a, b) == (a + b - 1) \div b

\* The call is a forwardTemporal call of a signal of dftSize samples or more.
LongSignal == op = "forwardTemporal" /\ args.signal.v.length >= properties.dftSize

\* The hop offset of the m-th frame (from 1) of a chunked call.
OffsetOfFrame(m) ==
    (m - 1) * (properties.interpolatedChunks + 1) * (properties.dftSize \div 2)

\* C10: for a signal of L >= dftSize samples, hftnnForwardTemporal visits
\* the hops h = 0, 1, ... at offsets h * dftSize / 2 < L, and processes
\* exactly the hops with h mod (interpolatedChunks + 1) = 0, in order; it
\* returns ceil(ceil(L / (dftSize / 2)) / (interpolatedChunks + 1)) frames.
C10_EveryNthHop ==
    LongSignal =>
        /\ thrown = NoError
        /\ Len(hops) = Ceil(args.signal.v.length, properties.dftSize \div 2)
        /\ \A h \in 1 .. Len(hops) :
              /\ hops[h].i = (h - 1) * (properties.dftSize \div 2)
              /\ hops[h].i < args.signal.v.length
              /\ hops[h].processed <=> (h - 1) % (properties.interpolatedChunks + 1) = 0
        /\ Len(fwd) = Ceil(Ceil(args.signal.v.length, properties.dftSize \div 2),
                           properties.interpolatedChunks + 1)
        /\ ret.length = Len(fwd)
        /\ \A m \in 1 .. Len(fwd) :
              /\ Get(ret, m - 1) = fwd[m].hft
              /\ fwd[m].frame.length = properties.dftSize
              /\ \A k \in 0 .. properties.dftSize - 1 :
                    Get(fwd[m].frame, k)
                        = IF OffsetOfFrame(m) + k < args.signal.v.length
                          THEN Get(args.signal.v, OffsetOfFrame(m) + k)
                          ELSE Num(0)

\* Four samples, dftSize = 2 and one interpolated chunk: hops 0 and 2 of
\* the four hops are processed.
C10_Witness ==
    /\ LongSignal
    /\ args.signal.v.length = 4
    /\ properties.dftSize = 2
    /\ properties.interpolatedChunks = 1
    /\ Len(hops) = 4
    /\ ~hops[2].processed
    /\ hops[3].processed
    /\ ret.length = 2

\* The number of offsets 0, dftSize / 2, 2 * dftSize / 2, ... below the
\* length of the signal of a forwardTemporal call.
HopCount == Ceil(args.signal.v.length, properties.dftSize \div 2)

\* C11 (as stated): whenever interpolatedChunks > 0, hftnnForwardTemporal
\* returns strictly fewer frames than the signal has hops, for every
\* signal length.
C11_FewerFramesThanHops ==
    (op = "forwardTemporal" /\ properties.interpolatedChunks > 0) =>
        ret.length < HopCount

\* C11 (amended): whenever interpolatedChunks > 0 and the signal has at
\* least two hops, the frames are strictly fewer than the hops; a signal
\* of at most one hop (at most dftSize / 2 samples) yields one frame.
C11_FewerFramesFromTwoHops ==
    (op = "forwardTemporal" /\ properties.interpolatedChunks > 0) =>
        /\ thrown = NoError
        /\ HopCount >= 2 => ret.length < HopCount
        /\ HopCount <= 1 => ret.length = 1
        /\ ret.length = Len(fwd)

\* Four samples, dftSize = 2, two interpolated chunks: four hops, two
\* frames.
C11_Witness ==
    /\ op = "forwardTemporal"
    /\ properties.interpolatedChunks = 2
    /\ properties.dftSize = 2
    /\ args.signal.v.length = 4
    /\ HopCount = 4
    /\ Len(hops) = 4
    /\ ret.length = 2

\* C12 (as stated): the chunks of the temporal forward transform do not
\* overlap: the k-th transformed chunk (from 0) holds the samples
\* k * dftSize .. (k + 1) * dftSize - 1 of the signal.
C12_NonOverlappingChunks ==
    LongSignal =>
        \A m \in 1 .. Len(fwd) :
            \A k \in 0 .. properties.dftSize - 1 :
                (m - 1) * properties.dftSize + k < args.signal.v.length =>
                    Get(fwd[m].frame, k)
                        = Get(args.signal.v, (m - 1) * properties.dftSize + k)

\* C13 (as stated): hftnnForwardTemporal leaves the caller's array as it
\* was, in the short branch and in the chunked branch.
C13_SignalUnchanged ==
    op = "forwardTemporal" => signal = args.signal.v

---------------------------------------------------------------------------
(* Properties of sequences of calls (hftnn.js) *)

\* The kept call and the last call are calls of the same operation with
\* identical inputs, and both returned.
SameCallTwice ==
    /\ js.kept.op # "none"
    /\ js.kept.op = js.last.op
    /\ js.kept.signal = js.last.signal
    /\ js.kept.thrown = NoError
    /\ js.last.thrown = NoError

\* C14 (as stated): two calls given identical inputs return identical
\* outputs, whatever was called before them.  The FFT's output is a
\* function of its input, so the outputs are identical iff the frames
\* handed to the FFT and the entries read from its output are.
C14_Deterministic ==
    SameCallTwice =>
        /\ js.kept.ret = js.last.ret
        /\ js.kept.inputs = js.last.inputs

\* C15 (as stated): after a forwardTemporal call, whether it returned or
\* threw, no window of that call is left in the module, and a later
\* forward call windows its frame with a window of the frame's own length.
C15_NoWindowLeftBehind ==
    /\ js.last.op = "forwardTemporal" => ~js.m.forwardWindow.given
    /\ (js.last.op = "forward" /\ js.last.thrown = NoError) =>
           js.last.windows[1] = js.last.frames[1]

---------------------------------------------------------------------------
(* Properties of the temporal reconstructor and of the bin mapping *)

\* The call is an inverseTemporal call that returned.
Reconstructed == op = "inverseTemporal" /\ thrown = NoError

\* The position, in the sequence of frames hftnnInverseTemporal built, of
\* input frame f itself (not of a frame interpolated from it).
RealPosition(f) ==
    CHOOSE q \in 1 .. Len(stitch.kinds) :
        stitch.kinds[q].kind # "interpolated" /\ stitch.kinds[q].from = f

\* C16 (as stated): exactly interpolatedChunks interpolated frames lie
\* between every two consecutive frames of the input in the sequence of
\* frames the inverse temporal transform builds.
C16_InterpolatedChunksBetweenRealFrames ==
    Reconstructed =>
        \A f \in 0 .. args.hftt.v.length - 2 :
            RealPosition(f + 1) - RealPosition(f) - 1 = properties.interpolatedChunks

\* The inverse call was made on the frame a forward call returned for a
\* signal of dftSize samples.
InverseOfFullFrame ==
    /\ op = "inverse"
    /\ Len(fwd) = 1
    /\ fwd[1].thrown = NoError
    /\ fwd[1].frame.length = properties.dftSize

\* C17: for a frame of dftSize samples, the bin hftnnForward emits at
\* position k of the frame is the bin hftnnInverse scatters entry k into,
\* for every k: 2 * extraBins + 1 entries per interval, low neighbours,
\* centre, high neighbours.
C17_SameBinPerEntry ==
    InverseOfFullFrame =>
        /\ thrown = NoError
        /\ Len(inv[1].writes) = Len(fwd[1].emitted)
        /\ Len(inv[1].writes) = HftLength(properties)
        /\ \A k \in 1 .. Len(inv[1].writes) :
              /\ inv[1].writes[k].entry = k - 1
              /\ inv[1].writes[k].at = 2 * fwd[1].emitted[k].idx
              /\ fwd[1].emitted[k].kind
                     = IF (k - 1) % (2 * properties.extraBins + 1) < properties.extraBins
                       THEN "low"
                       ELSE IF (k - 1) % (2 * properties.extraBins + 1) = properties.extraBins
                            THEN "centre"
                            ELSE "high"

\* A round trip with neighbours over two octaves, whose entries go to
\* more than one bin.
C17_Witness ==
    /\ InverseOfFullFrame
    /\ properties.extraBins = 1
    /\ properties.octaveRange = 2
    /\ properties.dftSize = 4
    /\ Len(inv[1].writes) = 3 * 2 * properties.frequenciesInOctave
    /\ inv[1].writes[1].at # inv[1].writes[2].at
    /\ inv[1].writes[2].at = 2 * fwd[1].emitted[2].idx

\* The indices of the spectrum array hftnnInverse wrote.
Written == UNION {{inv[1].writes[w].at, inv[1].writes[w].at + 1} :
                      w \in 1 .. Len(inv[1].writes)}

\* C18 (as stated): hftnnInverse writes no bin at index dftSize / 2 or
\* above, and every bin it did not write is zero when the inverse FFT
\* runs.
C18_NoMirrorBinWritten ==
    (op = "inverse" /\ thrown = NoError /\ InverseArgsGiven /\ ~LengthMismatch) =>
        /\ \A w \in 1 .. Len(inv[1].writes) :
              inv[1].writes[w].at \div 2 < properties.dftSize \div 2
        /\ \A k \in 0 .. 2 * properties.dftSize - 1 :
              k \notin Written => Get(inv[1].bins, k) = Num(0)

\* The frames of the input of an inverseTemporal call.
Frames == args.hftt.v

\* With interpolation, the position (from 1) of the current frame 2 * pair.
PairBase(pair) == pair * (2 * properties.interpolatedChunks + 2) + 1

\* The interpolated frame at t = (k + 1) / (2 * interpolatedChunks + 1)
\* between cur and next, entry by entry.
Synthetic(cur, next, k) ==
    [length |-> cur.length,
     el |-> [e \in 0 .. cur.length - 1 |->
                <<lerp(cur.el[e][1], next.el[e][1],
                       [num |-> k + 1, den |-> 2 * properties.interpolatedChunks + 1]),
                  lerp(cur.el[e][2], next.el[e][2],
                       [num |-> k + 1, den |-> 2 * properties.interpolatedChunks + 1])>>]]

\* C19: with interpolatedChunks > 0, every input frame is inverse
\* transformed and windowed as itself exactly once (a lookahead frame is
\* not taken again as a current frame), and each pair is appended as
\* current, interpolated frames in increasing t, lookahead.
C19_EachFrameOnce ==
    (op = "inverseTemporal" /\ properties.interpolatedChunks > 0 /\ Frames.length > 0) =>
        /\ thrown = NoError
        /\ Len(stitch.signals) = Len(stitch.kinds)
        /\ Len(inv) = Len(stitch.kinds)
        /\ \A f \in 0 .. Frames.length - 1 :
              Cardinality({q \in 1 .. Len(stitch.kinds) :
                              /\ stitch.kinds[q].kind # "interpolated"
                              /\ stitch.kinds[q].from = f}) = 1
        /\ \A pair \in 0 .. (Frames.length - 1) \div 2 :
              /\ stitch.kinds[PairBase(pair)] = [kind |-> "current", from |-> 2 * pair]
              /\ inv[PairBase(pair)].hft = Frames.el[2 * pair]
              /\ 2 * pair + 1 < Frames.length =>
                    /\ \A k \in 1 .. 2 * properties.interpolatedChunks :
                          /\ stitch.kinds[PairBase(pair) + k].kind = "interpolated"
                          /\ inv[PairBase(pair) + k].hft.el[0][1]
                                 = lerp(Frames.el[2 * pair].el[0][1],
                                        Frames.el[2 * pair + 1].el[0][1],
                                        [num |-> k,
                                         den |-> 2 * properties.interpolatedChunks + 1])
                    /\ stitch.kinds[PairBase(pair) + 2 * properties.interpolatedChunks + 1]
                           = [kind |-> "lookahead", from |-> 2 * pair + 1]
                    /\ inv[PairBase(pair) + 2 * properties.interpolatedChunks + 1].hft
                           = Frames.el[2 * pair + 1]
        /\ \A q \in 1 .. Len(stitch.signals) :
              Get(stitch.signals[q], 1)
                  = Mul(Get(inv[q].signal, 1), Sin(1, 2 * properties.dftSize - 1))

\* Three frames with one interpolated chunk: current 0, two interpolated
\* frames, lookahead 1, then frame 2 as a current frame.
C19_Witness ==
    /\ op = "inverseTemporal"
    /\ thrown = NoError
    /\ properties.interpolatedChunks = 1
    /\ Frames.length = 3
    /\ Len(stitch.kinds) = 5
    /\ stitch.kinds[4] = [kind |-> "lookahead", from |-> 1]
    /\ stitch.kinds[5] = [kind |-> "current", from |-> 2]

\* C20: for each (current, lookahead) pair with interpolatedChunks > 0,
\* hftnnInverseTemporal builds exactly 2 * interpolatedChunks synthetic
\* frames, frame k at t = (k + 1) / (2 * interpolatedChunks + 1), of the
\* current frame's length, entry e being the lerp of the magnitudes and
\* the lerp of the phases of entry e of the two frames.
C20_SyntheticFrames ==
    (op = "inverseTemporal" /\ properties.interpolatedChunks > 0 /\ Frames.length > 0) =>
        /\ Cardinality({q \in 1 .. Len(stitch.kinds) : stitch.kinds[q].kind = "interpolated"})
               = (Frames.length \div 2) * 2 * properties.interpolatedChunks
        /\ \A pair \in 0 .. (Frames.length \div 2) - 1 :
              /\ Cardinality({q \in 1 .. Len(stitch.kinds) :
                                 /\ stitch.kinds[q].kind = "interpolated"
                                 /\ stitch.kinds[q].from = 2 * pair})
                     = 2 * properties.interpolatedChunks
              /\ \A k \in 0 .. 2 * properties.interpolatedChunks - 1 :
                    /\ stitch.kinds[PairBase(pair) + 1 + k]
                           = [kind |-> "interpolated", from |-> 2 * pair]
                    /\ inv[PairBase(pair) + 1 + k].hft
                           = Synthetic(Frames.el[2 * pair], Frames.el[2 * pair + 1], k)
                    /\ 0 < k + 1
                    /\ k + 1 < 2 * properties.interpolatedChunks + 1

\* Two frames with two interpolated chunks: four synthetic frames, the
\* last at t = 4 / 5.
C20_Witness ==
    /\ op = "inverseTemporal"
    /\ thrown = NoError
    /\ properties.interpolatedChunks = 2
    /\ Frames.length = 2
    /\ Len(stitch.kinds) = 6
    /\ stitch.kinds[5].kind = "interpolated"
    /\ inv[5].hft = Synthetic(Frames.el[0], Frames.el[1], 3)
    /\ inv[5].hft.el[0][1]
           = <<"lerp", Frames.el[0].el[0][1], Frames.el[1].el[0][1], [num |-> 4, den |-> 5]>>

---------------------------------------------------------------------------
(* Properties of the overlap-add *)

\* The call is an inverseTemporal call that built at least one frame.
Stitched == Reconstructed /\ Len(stitch.signals) > 0

\* The positions start, start + 1, ..., start + n - 1, in order.
Run(start, n) == [x \in 1 .. n |-> start + x - 1]

\* C21: the accumulator starts as a copy of the first windowed frame;
\* each later frame, with relativeStart = accumulated length - dftSize,
\* has its first dftSize samples added to the accumulated samples and the
\* sums doubled, and its last dftSize samples appended.
C21_OverlapAdd ==
    Stitched =>
        /\ Len(stitch.log) = Len(stitch.signals) - 1
        /\ \A x \in 0 .. properties.dftSize - 1 : Get(ret, x) = Get(stitch.signals[1], x)
        /\ \A f \in 2 .. Len(stitch.signals) :
              /\ stitch.log[f - 1].relativeStart
                     = stitch.log[f - 1].before - properties.dftSize
              /\ stitch.log[f - 1].doubled
                     = Run(stitch.log[f - 1].relativeStart, properties.dftSize)
              /\ stitch.log[f - 1].appended
                     = Run(stitch.log[f - 1].before, properties.dftSize)
              /\ \A j \in 0 .. properties.dftSize - 1 :
                    Get(ret, stitch.log[f - 1].relativeStart + j)
                        = Mul(Add(Get(stitch.signals[f - 1], properties.dftSize + j),
                                  Get(stitch.signals[f], j)),
                              Num(2))
        /\ \A j \in 0 .. properties.dftSize - 1 :
              Get(ret, ret.length - properties.dftSize + j)
                  = Get(stitch.signals[Len(stitch.signals)], properties.dftSize + j)

\* Three frames without interpolation, dftSize = 4: the third frame is
\* stitched at position 8 of an accumulator of 12 samples.
C21_Witness ==
    /\ Stitched
    /\ properties.dftSize = 4
    /\ Len(stitch.signals) = 3
    /\ stitch.log[2].before = 12
    /\ stitch.log[2].relativeStart = 8
    /\ stitch.log[2].doubled = <<8, 9, 10, 11>>
    /\ stitch.log[2].appended = <<12, 13, 14, 15>>

---------------------------------------------------------------------------
(* Properties of the window *)

\* The last call of the session is a forward call that returned.
ForwardReturned == js.last.op = "forward" /\ js.last.thrown = NoError

\* C22: CosineWindow.apply multiplies buffer[i] by multipliers[i] for the
\* indices below min(buffer.length, window.length) and changes nothing
\* else: not the samples from the window's length on, not the buffer's
\* length, and not the window, which stays what its constructor made it
\* over any number of apply calls.
C22_ApplyInPlace ==
    /\ ForwardReturned =>
          /\ js.last.inputs[1].length = js.last.signal.length
          /\ DOMAIN js.last.inputs[1].el = DOMAIN js.last.signal.el
          /\ \A i \in 0 .. js.last.signal.length - 1 :
                Get(js.last.inputs[1], i)
                    = IF i < Min(js.last.signal.length, js.last.windows[1])
                      THEN Mul(Get(js.last.signal, i), Sin(i, js.last.windows[1] - 1))
                      ELSE Get(js.last.signal, i)
    /\ js.m.forwardWindow.given =>
          /\ js.m.forwardWindow.v.length = properties.dftSize
          /\ js.m.forwardWindow.v.multipliers.length = properties.dftSize
          /\ \A i \in 0 .. properties.dftSize - 1 :
                Get(js.m.forwardWindow.v.multipliers, i) = Sin(i, properties.dftSize - 1)

\* A buffer of four samples under the window of two samples that an
\* earlier call left in the module: samples 2 and 3 are as they were.
C22_Witness ==
    /\ ForwardReturned
    /\ js.last.signal.length = 4
    /\ js.last.windows[1] = 2
    /\ js.m.forwardWindow.given
    /\ Get(js.last.inputs[1], 1) = Mul(Num(1), Sin(1, 1))
    /\ Get(js.last.inputs[1], 3) = Num(1)

---------------------------------------------------------------------------
(* Properties of the per-call bin cache *)

\* The positions of the emitted entries of call k that were read from the cache.
ReadEmissions(k) == {e \in 1 .. Len(fwd[k].emitted) : fwd[k].emitted[e].read}

\* C23: within one forward call each bin is converted to polar form at
\* most once: the conversions of a call name pairwise different bins, the
\* cache ends holding exactly the converted bins (it started empty), a bin
\* is converted exactly when some emitted entry reads it, in the order of
\* first use, and two emitted entries reading the same bin index carry the
\* same (magnitude, phase) pair.
C23_BinComputedOnce ==
    \A k \in 1 .. Len(fwd) :
        /\ \A a, b \in 1 .. Len(fwd[k].computed) :
              fwd[k].computed[a] = fwd[k].computed[b] => a = b
        /\ DOMAIN fwd[k].bins.el = {fwd[k].computed[c] : c \in 1 .. Len(fwd[k].computed)}
        /\ {fwd[k].emitted[e].idx : e \in ReadEmissions(k)}
              = {fwd[k].computed[c] : c \in 1 .. Len(fwd[k].computed)}
        /\ \A a, b \in 1 .. Len(fwd[k].computed) :
              a < b => \E e \in ReadEmissions(k) :
                          /\ fwd[k].emitted[e].idx = fwd[k].computed[a]
                          /\ \A g \in ReadEmissions(k) :
                                fwd[k].emitted[g].idx = fwd[k].computed[b] => e < g
        /\ \A e, g \in ReadEmissions(k) :
              fwd[k].emitted[e].idx = fwd[k].emitted[g].idx
                  => Get(fwd[k].hft, e - 1) = Get(fwd[k].hft, g - 1)

\* Two neighbourhoods overlap: bin 1 is read as the centre of one interval
\* and as a neighbour of another, and is converted once.
C23_Witness ==
    \E k \in 1 .. Len(fwd) : \E e, g \in ReadEmissions(k) :
        /\ e < g
        /\ fwd[k].emitted[e].idx = 1
        /\ fwd[k].emitted[g].idx = 1
        /\ fwd[k].emitted[e].kind # fwd[k].emitted[g].kind
        /\ Len(fwd[k].computed) < Cardinality(ReadEmissions(k))
        /\ fwd[k].thrown = NoError

---------------------------------------------------------------------------
(* Properties of the chunks of hftnnForwardTemporal *)

\* The number of the hops 1 .. h that were processed: the position in fwd
\* of the frame transform of hop h, when hop h was processed.
FrameOfHop(h) == Cardinality({g \in 1 .. h : hops[g].processed})

\* C24: in the chunked branch every processed hop at offset i hands
\* hftnnForward a frame of exactly dftSize samples, frame[k] = signal[i + k]
\* below the signal's length and 0 from there on; the frame is a copy:
\* the window multiplies the copy and the caller's signal is as it was.
C24_ZeroPaddedCopy ==
    LongSignal =>
        /\ signal = args.signal.v
        /\ \A h \in 1 .. Len(hops) :
              hops[h].processed =>
                  /\ FrameOfHop(h) \in 1 .. Len(fwd)
                  /\ fwd[FrameOfHop(h)].frame.length = properties.dftSize
                  /\ fwd[FrameOfHop(h)].signal.length = properties.dftSize
                  /\ \A k \in 0 .. properties.dftSize - 1 :
                        /\ hops[h].i + k < args.signal.v.length
                              => Get(fwd[FrameOfHop(h)].frame, k)
                                     = Get(args.signal.v, hops[h].i + k)
                        /\ hops[h].i + k >= args.signal.v.length
                              => Get(fwd[FrameOfHop(h)].frame, k) = Num(0)
                        /\ Get(fwd[FrameOfHop(h)].signal, k)
                              = Mul(Get(fwd[FrameOfHop(h)].frame, k),
                                    Sin(k, properties.dftSize - 1))

\* Three samples and dftSize = 2: the hop at offset 2 is processed, its
\* frame is the third sample followed by a zero, and the signal still
\* holds its three samples.
C24_Witness ==
    /\ LongSignal
    /\ thrown = NoError
    /\ properties.dftSize = 2
    /\ args.signal.v.length = 3
    /\ Len(hops) = 3
    /\ hops[3].processed
    /\ hops[3].i = 2
    /\ Len(fwd) = 3
    /\ fwd[3].frame = ArrayOf(<<Get(args.signal.v, 2), Num(0)>>)
    /\ signal = args.signal.v
    /\ fwd[3].signal # fwd[3].frame

\* C25: in the chunk loop the second disjunct of the processing condition,
\* i >= signal.length + dftSize / 2, is false in every iteration, so a hop
\* is processed exactly when the skip counter j is 0 as the iteration starts.
C25_SecondDisjunctDead ==
    op = "forwardTemporal" =>
        \A h \in 1 .. Len(hops) :
            /\ ~hops[h].second
            /\ hops[h].i < args.signal.v.length + (properties.dftSize \div 2)
            /\ hops[h].processed <=> hops[h].j = 0

\* The last hop of a signal of four samples with dftSize = 2 and one
\* interpolated chunk: the frame at offset 3 would reach past the end of
\* the signal, its skip counter is 1, and it is not processed.
C25_Witness ==
    /\ LongSignal
    /\ args.signal.v.length = 4
    /\ properties.dftSize = 2
    /\ Len(hops) = 4
    /\ hops[4].i = 3
    /\ hops[4].j = 1
    /\ ~hops[4].second
    /\ ~hops[4].processed
    /\ hops[3].j = 0
    /\ hops[3].processed

---------------------------------------------------------------------------
(* Properties of the sizes hftnnForward and hftnnInverse work at *)

\* The position in the emitted entries of the centre bin of interval j.
CentreOf(j) == j * (2 * properties.extraBins + 1) + properties.extraBins + 1

\* C27: hftnnForward selects bins against the size the FFT is run at: for
\* every signal the input check accepts, the FFT plan has the size of the
\* frame, and the centre bin of interval j is
\* freqToFftBin(freq(j), sampleRate, dftSize), the bin hftnnInverse uses.
C27_BinsAgainstFftSize ==
    (op = "forward" /\ ForwardArgsValid /\ thrown = NoError) =>
        /\ fwd[1].fftSize = fwd[1].frame.length
        /\ \A j \in 0 .. properties.octaveRange * properties.frequenciesInOctave - 1 :
              /\ CentreOf(j) <= Len(fwd[1].emitted)
              /\ fwd[1].emitted[CentreOf(j)].kind = "centre"
              /\ fwd[1].emitted[CentreOf(j)].idx
                     = freqToFftBin(intervalToFreq(j, properties.fundamental,
                                                   properties.frequenciesInOctave),
                                    properties.sampleRate, properties.dftSize)

\* C28: hftnnInverse keeps the spectrum an array of dftSize complex bins:
\* for a frame of the matching length every scatter-write goes to an
\* interleaved index in [0, 2 * dftSize), so the array handed to the
\* inverse FFT has length 2 * dftSize and holds nothing outside it.
C28_SpectrumStaysFixed ==
    (op = "inverse" /\ thrown = NoError /\ InverseArgsGiven /\ ~LengthMismatch) =>
        /\ \A w \in 1 .. Len(inv[1].writes) :
              /\ inv[1].writes[w].at >= 0
              /\ inv[1].writes[w].at + 1 < 2 * properties.dftSize
        /\ inv[1].bins.length = 2 * properties.dftSize
        /\ DOMAIN inv[1].bins.el \subseteq 0 .. 2 * properties.dftSize - 1

---------------------------------------------------------------------------
(* Properties of the stitched signal *)

\* The positions of the accumulator that frame f + 1 was added to and
\* doubled at, and the positions it covers.
DoubledBy(f) == {stitch.log[f].doubled[x] : x \in 1 .. Len(stitch.log[f].doubled)}
CoveredBy(f) == DoubledBy(f)
                    \cup {stitch.log[f].appended[x] : x \in 1 .. Len(stitch.log[f].appended)}

\* C29: over the whole stitch every position of the accumulator takes
\* part in the add-and-double step at most once and is covered by at most
\* two windowed frames; the first dftSize and the last dftSize positions
\* of the output are never doubled; a single windowed frame is returned
\* as it is.
C29_DoubledAtMostOnce ==
    Stitched =>
        /\ \A f \in 1 .. Len(stitch.log) :
              /\ Cardinality(DoubledBy(f)) = Len(stitch.log[f].doubled)
              /\ \A g \in 1 .. Len(stitch.log) :
                    f # g => DoubledBy(f) \cap DoubledBy(g) = {}
              /\ \A x \in DoubledBy(f) :
                    /\ x >= properties.dftSize
                    /\ x < ret.length - properties.dftSize
        /\ \A x \in 0 .. ret.length - 1 :
              Cardinality({f \in 1 .. Len(stitch.log) : x \in CoveredBy(f)})
                  + (IF x < 2 * properties.dftSize THEN 1 ELSE 0) \in 1 .. 2
        /\ Len(stitch.signals) = 1 => (ret = stitch.signals[1] /\ stitch.log = <<>>)

\* Three windowed frames of four samples: the second is doubled into
\* positions 2 and 3, the third into positions 4 and 5, and positions
\* 0, 1, 6 and 7 of the eight are never doubled.
C29_Witness ==
    /\ Stitched
    /\ properties.dftSize = 2
    /\ Len(stitch.signals) = 3
    /\ ret.length = 8
    /\ DoubledBy(1) = {2, 3}
    /\ DoubledBy(2) = {4, 5}

\* C30: for a TemporalHFT of n > 0 frames hftnnInverseTemporal builds
\* F = n + 2 * interpolatedChunks * (n \div 2) windowed frames, each of
\* 2 * dftSize samples, and returns (F + 1) * dftSize samples; every
\* stitched frame lengthens the accumulator by exactly dftSize.
C30_OutputLength ==
    (op = "inverseTemporal" /\ Frames.length > 0) =>
        /\ thrown = NoError
        /\ Len(stitch.signals)
               = Frames.length + 2 * properties.interpolatedChunks * (Frames.length \div 2)
        /\ \A f \in 1 .. Len(stitch.signals) :
              stitch.signals[f].length = 2 * properties.dftSize
        /\ ret.length = (Len(stitch.signals) + 1) * properties.dftSize
        /\ Len(stitch.log) = Len(stitch.signals) - 1
        /\ \A f \in 1 .. Len(stitch.log) :
              /\ stitch.log[f].before = (f + 1) * properties.dftSize
              /\ stitch.log[f].after = stitch.log[f].before + properties.dftSize

\* Three frames with one interpolated chunk: 3 + 2 * 1 * 1 = 5 windowed
\* frames of eight samples and an output of 6 * 4 = 24 samples.
C30_Witness ==
    /\ op = "inverseTemporal"
    /\ thrown = NoError
    /\ Frames.length = 3
    /\ properties.interpolatedChunks = 1
    /\ properties.dftSize = 4
    /\ Len(stitch.signals) = 5
    /\ ret.length = 24
    /\ stitch.log[4].after = 24

---------------------------------------------------------------------------
(* The calls, one loop iteration at a time.  A call of                     *)
(* hftnnForwardTemporal, hftnnInverse or hftnnInverseTemporal is started,  *)
(* every iteration of its loops is a step, and its return writes the       *)
(* variables of the session as the whole call does.  The code is           *)
(* synchronous and single-threaded: a started call runs on whenever it     *)
(* has a next step, which is the weak fairness of NextLoops.               *)

\* The variables of the session other than run.
session == <<properties, op, args, signal, ret, thrown, fwd, inv, hops, stitch, js>>

\* The call returned or threw.
Returned == [pc |-> "done"]

\* Signals of every length up to MaxSignalLen, of equal samples.
LoopSignals == {x \in Signals : \A k \in 0 .. x.length - 1 : Get(x, k) = Num(1)}

\* hftnnForwardTemporal(signal, properties) up to the chunk loop.
CallForwardTemporal ==
    /\ run.pc = "idle"
    /\ tick' = ~tick
    /\ \E sig \in LoopSignals :
          IF sig.length < properties.dftSize
          THEN /\ ForwardTemporalDone(hftnnForwardTemporal(sig, properties), sig)
               /\ run' = Returned
          ELSE /\ run' = [pc |-> "chunk", sig |-> sig,
                          st |-> [thrown |-> NoError, i |-> 0, j |-> 0, fwd |-> <<>>,
                                  hftnns |-> NewArray(0), hops |-> <<>>]]
               /\ UNCHANGED session

\* One iteration of for (i = 0; i < signal.length; i += dftSize / 2).
ChunkIteration ==
    /\ run.pc = "chunk"
    /\ tick' = ~tick
    /\ run.st.thrown = NoError
    /\ run.st.i < run.sig.length
    /\ run' = [run EXCEPT !.st = chunkStep(run.st, run.st.j = 0,
                                           run.st.i >= run.sig.length
                                                           + (properties.dftSize \div 2),
                                           run.sig, properties,
                                           CosineWindow(properties.dftSize))]
    /\ UNCHANGED session

\* The chunk loop is left: return hftnns, or the throw of a frame transform.
ForwardTemporalReturn ==
    /\ run.pc = "chunk"
    /\ tick' = ~tick
    /\ ~(run.st.thrown = NoError /\ run.st.i < run.sig.length)
    /\ ForwardTemporalDone(chunkedReturned(run.st, run.sig), run.sig)
    /\ run' = Returned

\* hftnnInverse(hft, properties) up to the while loop.
CallInverse ==
    /\ run.pc = "idle"
    /\ tick' = ~tick
    /\ \E hft \in HftInputs(properties) :
          run' = [pc |-> "scatter", hft |-> hft,
                  st |-> [thrown |-> NoError, i |-> 0, interval |-> 0,
                          bins |-> createComplexArray(properties.dftSize),
                          writes |-> <<>>]]
    /\ UNCHANGED session

\* One iteration of while (i < hft.length).
ScatterIteration ==
    /\ run.pc = "scatter"
    /\ tick' = ~tick
    /\ run.st.thrown = NoError
    /\ run.st.i < run.hft.length
    /\ run' = [run EXCEPT !.st = scatterStep(run.st, run.hft, properties)]
    /\ UNCHANGED session

\* The while loop is left: the inverse FFT and the return, or the throw.
InverseReturn ==
    /\ run.pc = "scatter"
    /\ tick' = ~tick
    /\ ~(run.st.thrown = NoError /\ run.st.i < run.hft.length)
    /\ InverseDone(inverseReturned(run.st, run.hft,
                                   inverseTransform(1, properties.dftSize,
                                                    createComplexArray(properties.dftSize))),
                   Given(run.hft), TRUE)
    /\ run' = Returned

\* hftnnInverseTemporal(hftt, properties) up to the frame loop.
CallInverseTemporal ==
    /\ run.pc = "idle"
    /\ tick' = ~tick
    /\ \E hftt \in TemporalInputs(properties) :
          IF hftt.length = 0
          THEN /\ InverseTemporalDone(hftnnInverseTemporal(hftt, properties), hftt)
               /\ run' = Returned
          ELSE /\ run' = [pc |-> "frames", hftt |-> hftt,
                          st |-> [thrown |-> NoError, i |-> 0, inv |-> <<>>,
                                  signals |-> <<>>, kinds |-> <<>>,
                                  windowFunc |-> NotGiven(CosineWindow(0)),
                                  windowsBuilt |-> <<>>]]
               /\ UNCHANGED session

\* One iteration of for (i = 0; i < hftt.length; i++).
FrameIteration ==
    /\ run.pc = "frames"
    /\ tick' = ~tick
    /\ run.st.thrown = NoError
    /\ run.st.i < run.hftt.length
    /\ run' = [run EXCEPT !.st = frameStep(run.st, run.hftt, properties)]
    /\ UNCHANGED session

\* The frame loop is left: const signal = [...signals[0]], or the throw of
\* an inverse transform.
StitchStart ==
    /\ run.pc = "frames"
    /\ tick' = ~tick
    /\ ~(run.st.thrown = NoError /\ run.st.i < run.hftt.length)
    /\ IF run.st.thrown # NoError
       THEN /\ InverseTemporalDone(stitchFrames(run.st, properties), run.hftt)
            /\ run' = Returned
       ELSE /\ run' = [pc |-> "overlap", hftt |-> run.hftt, st |-> run.st,
                       sum |-> [signal |-> Spread(run.st.signals[1]), i |-> 1,
                                log |-> <<>>]]
            /\ UNCHANGED session

\* for (i = 1; i < signals.length; i++): relativeStart of frame i, j = 0.
OverlapFrameStart ==
    /\ run.pc = "overlap"
    /\ tick' = ~tick
    /\ run.sum.i < Len(run.st.signals)
    /\ run' = [pc |-> "samples", hftt |-> run.hftt, st |-> run.st, sum |-> run.sum,
               relativeStart |-> (run.sum.signal.length - properties.dftSize * 2)
                                     + properties.dftSize,
               one |-> [signal |-> run.sum.signal, j |-> 0,
                        appended |-> <<>>, doubled |-> <<>>]]
    /\ UNCHANGED session

\* One iteration of for (j = 0; j < dftSize * 2; j++).
OverlapSampleStep ==
    /\ run.pc = "samples"
    /\ tick' = ~tick
    /\ run.one.j < properties.dftSize * 2
    /\ run' = [run EXCEPT !.one = overlapSample(run.one,
                                                Get(run.st.signals[run.sum.i + 1],
                                                    run.one.j),
                                                run.relativeStart + run.one.j)]
    /\ UNCHANGED session

\* The inner loop is left: i++.
OverlapFrameEnd ==
    /\ run.pc = "samples"
    /\ tick' = ~tick
    /\ ~(run.one.j < properties.dftSize * 2)
    /\ run' = [pc |-> "overlap", hftt |-> run.hftt, st |-> run.st,
               sum |-> overlapped(run.sum, run.one, run.relativeStart)]
    /\ UNCHANGED session

\* The overlap-add is left: return signal.
InverseTemporalReturn ==
    /\ run.pc = "overlap"
    /\ tick' = ~tick
    /\ ~(run.sum.i < Len(run.st.signals))
    /\ InverseTemporalDone(temporalReturned(run.st, run.sum), run.hftt)
    /\ run' = Returned

NextLoops ==
    \/ CallForwardTemporal
    \/ ChunkIteration
    \/ ForwardTemporalReturn
    \/ CallInverse
    \/ ScatterIteration
    \/ InverseReturn
    \/ CallInverseTemporal
    \/ FrameIteration
    \/ StitchStart
    \/ OverlapFrameStart
    \/ OverlapSampleStep
    \/ OverlapFrameEnd
    \/ InverseTemporalReturn

\* A call in progress takes a step.
Step == run.pc # "done" /\ tick' = ~tick

\* Every step of NextLoops from a state where the call has not returned is
\* a Step step and the reverse, and NextLoops has a step in every such
\* state: the fairness of Step is the weak fairness of NextLoops, stated
\* without the loops' bodies.
SpecLoops == Init /\ [][NextLoops]_vars /\ WF_tick(Step)

---------------------------------------------------------------------------
(* Termination *)

\* The iterations the loops of the returned call ran.
IterationsAsStated ==
    /\ op = "forwardTemporal" /\ args.signal.v.length >= properties.dftSize
          => Len(hops) = Ceil(args.signal.v.length, properties.dftSize \div 2)
    /\ op = "inverse"
          => /\ thrown \in {NoError, TypeError}
             /\ Len(inv[1].writes) = args.hft.v.length
    /\ op = "inverseTemporal" /\ thrown = NoError /\ args.hftt.v.length > 0
          => /\ Len(stitch.log) = Len(stitch.signals) - 1
             /\ \A f \in 1 .. Len(stitch.log) :
                   Len(stitch.log[f].appended) + Len(stitch.log[f].doubled)
                       = 2 * properties.dftSize

\* C26: every started call of hftnnForwardTemporal, hftnnInverse and
\* hftnnInverseTemporal eventually returns or throws, and when it has, the
\* chunk loop ran ceil(signal.length / (dftSize / 2)) iterations, the
\* inverse loop consumed the frame's entries (or threw on a missing one),
\* and every frame's overlap-add ran its 2 * dftSize iterations while the
\* accumulator grew under it.
C26_Terminates ==
    /\ (run.pc # "idle") ~> (run.pc = "done")
    /\ [](run.pc = "done" => IterationsAsStated)

\* An inverseTemporal call that returned after its overlap-add appended to
\* the accumulator it was indexing.
C26_Witness ==
    /\ run.pc = "done"
    /\ op = "inverseTemporal"
    /\ thrown = NoError
    /\ Len(stitch.log) = 2
    /\ Len(stitch.log[2].appended) = properties.dftSize
    /\ stitch.log[2].after > stitch.log[2].before

====
